---- MODULE Spec2Model ----
(***************************************************************************)
(* A model of the roli crate (a wrapper of the Rolimons.com api): the      *)
(* ambiguous scalar Code, the positional record decoders, the envelope and *)
(* status handling of every Client method, and the Client's token state.   *)
(*                                                                         *)
(* Machine words.  The crate computes in i64 and u64.  TLC's integers are  *)
(* 32 bits wide, so the model keeps the crate's arithmetic but scales the  *)
(* word from 64 bits to WordBits bits: "i64" is the signed and "u64" the   *)
(* unsigned WordBits-bit integer, and every cast and overflow is modelled  *)
(* at that width.                                                          *)
(*                                                                         *)
(* Strings are sequences of one-character strings, so that parsing and     *)
(* rendering are computed character by character as the library does.      *)
(***************************************************************************)
EXTENDS Integers, Sequences, FiniteSets, TLC

----------------------------------------------------------------------------
(* Machine words                                                           *)

WordBits == 16

Modulus == 2 ^ WordBits

I64_MAX == (Modulus \div 2) - 1

I64_MIN == 0 - (Modulus \div 2)

U64_MAX == Modulus - 1

\* `x as u64` of an i64 x: the two's-complement reinterpretation.
AsU64(x) == x % Modulus

\* `x as i64` of a u64 x.
AsI64(x) == IF (x % Modulus) > I64_MAX THEN (x % Modulus) - Modulus ELSE x % Modulus

----------------------------------------------------------------------------
(* str::parse::<i64>() / str::parse::<u64>() and the decimal Display       *)

Digits == <<"0", "1", "2", "3", "4", "5", "6", "7", "8", "9">>

IsDigit(c) == \E i \in 1..10 : Digits[i] = c

DigitVal(c) == (CHOOSE i \in 1..10 : Digits[i] = c) - 1

ParseFail == [ok |-> FALSE, v |-> 0]

\* The checked accumulation loop of the integer parser: every character
\* must be a digit and no intermediate value may leave lo..hi.
RECURSIVE ParseDigits(_, _, _, _, _)
ParseDigits(s, acc, positive, lo, hi) ==
    IF s = <<>> THEN [ok |-> TRUE, v |-> acc]
    ELSE IF ~IsDigit(Head(s)) THEN ParseFail
    ELSE LET next == IF positive THEN acc * 10 + DigitVal(Head(s))
                                 ELSE acc * 10 - DigitVal(Head(s))
         IN  IF next > hi \/ next < lo THEN ParseFail
             ELSE ParseDigits(Tail(s), next, positive, lo, hi)

\* The sign handling of the integer parser: the empty string and a lone
\* sign fail, a leading "+" is dropped, a leading "-" is a sign only for a
\* signed type (for an unsigned type it is an invalid digit).
ParseInt(s, signed, lo, hi) ==
    IF s = <<>> THEN ParseFail
    ELSE IF Head(s) \in {"+", "-"} /\ Len(s) = 1 THEN ParseFail
    ELSE IF Head(s) = "+" THEN ParseDigits(Tail(s), 0, TRUE, lo, hi)
    ELSE IF Head(s) = "-" /\ signed THEN ParseDigits(Tail(s), 0, FALSE, lo, hi)
    ELSE ParseDigits(s, 0, TRUE, lo, hi)

ParseI64(s) == ParseInt(s, TRUE, I64_MIN, I64_MAX)

ParseU64(s) == ParseInt(s, FALSE, 0, U64_MAX)

RECURSIVE RenderNat(_)
RenderNat(n) ==
    IF n < 10 THEN <<Digits[n + 1]>>
    ELSE Append(RenderNat(n \div 10), Digits[(n % 10) + 1])

\* write!(f, "{}", x) of an i64.
RenderI64(n) == IF n < 0 THEN <<"-">> \o RenderNat(0 - n) ELSE RenderNat(n)

----------------------------------------------------------------------------
(* RoliError                                                               *)

RequestReturnedUnsuccessful == "RequestReturnedUnsuccessful"

TooManyRequests == "TooManyRequests"

InternalServerError == "InternalServerError"

MalformedResponse == "MalformedResponse"

RoliVerificationContainsInvalidCharacters == "RoliVerificationContainsInvalidCharacters"

RoliVerificationInvalidOrExpired == "RoliVerificationInvalidOrExpired"

RoliVerificationNotSet == "RoliVerificationNotSet"

CooldownNotExpired == "CooldownNotExpired"

UnidentifiedStatusCode == "UnidentifiedStatusCode"

ReqwestError == "ReqwestError"

----------------------------------------------------------------------------
(* Code, the ambiguous scalar                                              *)

CodeInteger(n) == [t |-> "int", i |-> n]

CodeString(s) == [t |-> "str", s |-> s]

\* Code::to_i64: Ok(x) for Integer(x), x.parse() for String(x).
\* Code::to_i64 with `x.parse().unwrap_or_default()` for the String
\* variant: a string that does not parse yields 0.
to_i64_unwrap_or_default(c) ==
    IF c.t = "int" THEN [ok |-> TRUE, v |-> c.i]
    ELSE IF ParseI64(c.s).ok THEN ParseI64(c.s) ELSE [ok |-> TRUE, v |-> 0]

to_i64(c) == IF c.t = "int" THEN [ok |-> TRUE, v |-> c.i] ELSE ParseI64(c.s)

\* Display for Code (to_string).
to_string(c) == IF c.t = "int" THEN RenderI64(c.i) ELSE c.s

----------------------------------------------------------------------------
(* Outcomes of a record decoder: Ok(entity), Err(RoliError), or a panic.   *)

RecOk(e) == [kind |-> "Ok", err |-> "none", value |-> <<e>>]

RecErr(e) == [kind |-> "Err", err |-> e, value |-> <<>>]

RecPanic(why) == [kind |-> "Panic", err |-> why, value |-> <<>>]

----------------------------------------------------------------------------
(* deals.rs: Activity                                                      *)

PriceUpdate(timestamp, item_id, price) ==
    [variant |-> "PriceUpdate", timestamp |-> timestamp, item_id |-> item_id,
     price |-> price]

RapUpdate(timestamp, item_id, rap) ==
    [variant |-> "RapUpdate", timestamp |-> timestamp, item_id |-> item_id,
     rap |-> rap]

\* Activity::from_raw.  Sequences are 1-based: codes[k] of the source is
\* codes[k + 1] here.
\* Activity::from_raw with `codes[1].to_i64().unwrap_or(1) == 0`: a
\* discriminator that is no integer selects RapUpdate.
Activity_from_raw_discriminator_unchecked(codes) ==
    IF Len(codes) # 5 THEN RecErr(MalformedResponse)
    ELSE
    LET disc      == to_i64(codes[2])
        timestamp == to_i64(codes[1])
        item_id   == to_i64(codes[3])
        val       == to_i64(codes[5])
    IN  IF ~timestamp.ok THEN RecErr(MalformedResponse)
        ELSE IF ~item_id.ok THEN RecErr(MalformedResponse)
        ELSE IF ~val.ok THEN RecErr(MalformedResponse)
        ELSE IF disc.ok /\ disc.v = 0
             THEN RecOk(PriceUpdate(AsU64(timestamp.v), AsU64(item_id.v), AsU64(val.v)))
             ELSE RecOk(RapUpdate(AsU64(timestamp.v), AsU64(item_id.v), AsU64(val.v)))

Activity_from_raw(codes) ==
    IF Len(codes) # 5 THEN RecErr(MalformedResponse)
    ELSE
    LET disc      == to_i64(codes[2])
        timestamp == to_i64(codes[1])
        item_id   == to_i64(codes[3])
        val       == to_i64(codes[5])
    IN  IF ~disc.ok THEN RecErr(MalformedResponse)
        ELSE IF ~timestamp.ok THEN RecErr(MalformedResponse)
        ELSE IF ~item_id.ok THEN RecErr(MalformedResponse)
        ELSE IF ~val.ok THEN RecErr(MalformedResponse)
        ELSE IF disc.v = 0
             THEN RecOk(PriceUpdate(AsU64(timestamp.v), AsU64(item_id.v), AsU64(val.v)))
             ELSE RecOk(RapUpdate(AsU64(timestamp.v), AsU64(item_id.v), AsU64(val.v)))

----------------------------------------------------------------------------
(* market_activity.rs: Sale                                                *)

InRangeI64(x) == x >= I64_MIN /\ x <= I64_MAX

\* calculate_sale_price(old_rap, new_rap) on two u64.  The subtraction, the
\* multiplication and the addition are i64 operations: when one of them
\* overflows, a build with overflow checks panics and a build without them
\* wraps.  overflow_checks says which build runs.
calculate_sale_price(old_rap, new_rap, overflow_checks) ==
    IF old_rap = 0 THEN [panic |-> FALSE, v |-> new_rap]
    ELSE
    LET diff   == AsI64(new_rap) - AsI64(old_rap)
        change == AsI64(diff)
        prod   == 10 * change
        sum    == AsI64(prod) + AsI64(old_rap)
        price  == AsI64(sum)
    IN  IF overflow_checks /\ (~InRangeI64(diff) \/ ~InRangeI64(prod) \/ ~InRangeI64(sum))
        THEN [panic |-> TRUE, v |-> 0]
        ELSE [panic |-> FALSE, v |-> AsU64(price)]

\* Sale::from_raw without the comparison of activity_type with 1.
Sale_from_raw_any_activity_type(codes, overflow_checks) ==
    IF Len(codes) # 6 THEN RecErr(MalformedResponse)
    ELSE
    LET activity_type == to_i64(codes[2])
        timestamp     == to_i64(codes[1])
        item_id       == to_i64(codes[3])
        old_rap       == to_i64(codes[4])
        new_rap       == to_i64(codes[5])
        sale_price    == calculate_sale_price(AsU64(old_rap.v), AsU64(new_rap.v),
                                              overflow_checks)
        sale_id       == to_i64(codes[6])
    IN  IF ~activity_type.ok THEN RecErr(MalformedResponse)
        ELSE IF ~timestamp.ok THEN RecErr(MalformedResponse)
        ELSE IF ~item_id.ok THEN RecErr(MalformedResponse)
        ELSE IF ~old_rap.ok THEN RecErr(MalformedResponse)
        ELSE IF ~new_rap.ok THEN RecErr(MalformedResponse)
        ELSE IF sale_price.panic THEN RecPanic("attempt to compute with overflow")
        ELSE IF ~sale_id.ok THEN RecErr(MalformedResponse)
        ELSE RecOk([item_id |-> AsU64(item_id.v), old_rap |-> AsU64(old_rap.v),
                    new_rap |-> AsU64(new_rap.v), sale_price |-> sale_price.v,
                    timestamp |-> AsU64(timestamp.v), sale_id |-> AsU64(sale_id.v)])

\* Sale::from_raw.
Sale_from_raw(codes, overflow_checks) ==
    IF Len(codes) # 6 THEN RecErr(MalformedResponse)
    ELSE
    LET activity_type == to_i64(codes[2])
        timestamp     == to_i64(codes[1])
        item_id       == to_i64(codes[3])
        old_rap       == to_i64(codes[4])
        new_rap       == to_i64(codes[5])
        sale_price    == calculate_sale_price(AsU64(old_rap.v), AsU64(new_rap.v),
                                              overflow_checks)
        sale_id       == to_i64(codes[6])
    IN  IF ~activity_type.ok THEN RecErr(MalformedResponse)
        ELSE IF AsU64(activity_type.v) # 1 THEN RecErr(MalformedResponse)
        ELSE IF ~timestamp.ok THEN RecErr(MalformedResponse)
        ELSE IF ~item_id.ok THEN RecErr(MalformedResponse)
        ELSE IF ~old_rap.ok THEN RecErr(MalformedResponse)
        ELSE IF ~new_rap.ok THEN RecErr(MalformedResponse)
        ELSE IF sale_price.panic THEN RecPanic("attempt to compute with overflow")
        ELSE IF ~sale_id.ok THEN RecErr(MalformedResponse)
        ELSE RecOk([item_id |-> AsU64(item_id.v), old_rap |-> AsU64(old_rap.v),
                    new_rap |-> AsU64(new_rap.v), sale_price |-> sale_price.v,
                    timestamp |-> AsU64(timestamp.v), sale_id |-> AsU64(sale_id.v)])

----------------------------------------------------------------------------
(* items.rs: ItemDetails                                                   *)

IndexOutOfBounds == "index out of bounds"

\* The variants of enum Demand and of enum Trend.
Demand == {"Unassigned", "Terrible", "Low", "Normal", "High", "Amazing"}

Trend == {"Unassigned", "Lowering", "Unstable", "Stable", "Raising", "Fluctuating"}

\* The match of codes[5] with `_ => Demand::default()` as its last arm: a
\* code outside the table is taken for Unassigned.
DemandOf_default_unassigned(code) ==
    CASE code = -1 -> [ok |-> TRUE, v |-> "Unassigned"]
      [] code = 0  -> [ok |-> TRUE, v |-> "Terrible"]
      [] code = 1  -> [ok |-> TRUE, v |-> "Low"]
      [] code = 2  -> [ok |-> TRUE, v |-> "Normal"]
      [] code = 3  -> [ok |-> TRUE, v |-> "High"]
      [] code = 4  -> [ok |-> TRUE, v |-> "Amazing"]
      [] OTHER     -> [ok |-> TRUE, v |-> "Unassigned"]

\* The match of codes[5] onto Demand.
DemandOf(code) ==
    CASE code = -1 -> [ok |-> TRUE, v |-> "Unassigned"]
      [] code = 0  -> [ok |-> TRUE, v |-> "Terrible"]
      [] code = 1  -> [ok |-> TRUE, v |-> "Low"]
      [] code = 2  -> [ok |-> TRUE, v |-> "Normal"]
      [] code = 3  -> [ok |-> TRUE, v |-> "High"]
      [] code = 4  -> [ok |-> TRUE, v |-> "Amazing"]
      [] OTHER     -> [ok |-> FALSE, v |-> "none"]

\* The match of codes[6] with the arms of 3 and 4 exchanged.
TrendOf_arms_exchanged(code) ==
    CASE code = -1 -> [ok |-> TRUE, v |-> "Unassigned"]
      [] code = 0  -> [ok |-> TRUE, v |-> "Lowering"]
      [] code = 1  -> [ok |-> TRUE, v |-> "Unstable"]
      [] code = 2  -> [ok |-> TRUE, v |-> "Stable"]
      [] code = 3  -> [ok |-> TRUE, v |-> "Fluctuating"]
      [] code = 4  -> [ok |-> TRUE, v |-> "Raising"]
      [] OTHER     -> [ok |-> FALSE, v |-> "none"]

\* The match of codes[6] onto Trend.
TrendOf(code) ==
    CASE code = -1 -> [ok |-> TRUE, v |-> "Unassigned"]
      [] code = 0  -> [ok |-> TRUE, v |-> "Lowering"]
      [] code = 1  -> [ok |-> TRUE, v |-> "Unstable"]
      [] code = 2  -> [ok |-> TRUE, v |-> "Stable"]
      [] code = 3  -> [ok |-> TRUE, v |-> "Raising"]
      [] code = 4  -> [ok |-> TRUE, v |-> "Fluctuating"]
      [] OTHER     -> [ok |-> FALSE, v |-> "none"]

\* The match of codes[7], codes[8], codes[9] onto bool.
FlagOf(code) ==
    CASE code = 1  -> [ok |-> TRUE, v |-> TRUE]
      [] code = -1 -> [ok |-> TRUE, v |-> FALSE]
      [] OTHER     -> [ok |-> FALSE, v |-> FALSE]

\* Option<String>: None, or Some(s).
None == [some |-> FALSE, v |-> <<>>]

Some(s) == [some |-> TRUE, v |-> s]

\* Option<u64>.
NoneU64 == [some |-> FALSE, n |-> 0]

SomeU64(n) == [some |-> TRUE, n |-> n]

\* ItemDetails::from_raw with the acronym kept whatever the slot renders to.
ItemDetails_from_raw_acronym_always_some(item_id, codes) ==
    LET n         == Len(codes)
        acronym   == Some(to_string(codes[2]))
        rap       == to_i64(codes[3])
        valued    == to_i64(codes[4])
        value     == to_i64(codes[5])
        demandc   == to_i64(codes[6])
        demand    == DemandOf(demandc.v)
        trendc    == to_i64(codes[7])
        trend     == TrendOf(trendc.v)
        projc     == to_i64(codes[8])
        projected == FlagOf(projc.v)
        hypedc    == to_i64(codes[9])
        hyped     == FlagOf(hypedc.v)
        rarec     == to_i64(codes[10])
        rare      == FlagOf(rarec.v)
    IN  IF n < 1 THEN RecPanic(IndexOutOfBounds)
        ELSE IF n < 2 THEN RecPanic(IndexOutOfBounds)
        ELSE IF n < 3 THEN RecPanic(IndexOutOfBounds)
        ELSE IF ~rap.ok THEN RecErr(MalformedResponse)
        ELSE IF n < 4 THEN RecPanic(IndexOutOfBounds)
        ELSE IF ~valued.ok THEN RecErr(MalformedResponse)
        ELSE IF n < 5 THEN RecPanic(IndexOutOfBounds)
        ELSE IF ~value.ok THEN RecErr(MalformedResponse)
        ELSE IF n < 6 THEN RecPanic(IndexOutOfBounds)
        ELSE IF ~demandc.ok \/ ~demand.ok THEN RecErr(MalformedResponse)
        ELSE IF n < 7 THEN RecPanic(IndexOutOfBounds)
        ELSE IF ~trendc.ok \/ ~trend.ok THEN RecErr(MalformedResponse)
        ELSE IF n < 8 THEN RecPanic(IndexOutOfBounds)
        ELSE IF ~projc.ok \/ ~projected.ok THEN RecErr(MalformedResponse)
        ELSE IF n < 9 THEN RecPanic(IndexOutOfBounds)
        ELSE IF ~hypedc.ok \/ ~hyped.ok THEN RecErr(MalformedResponse)
        ELSE IF n < 10 THEN RecPanic(IndexOutOfBounds)
        ELSE IF ~rarec.ok \/ ~rare.ok THEN RecErr(MalformedResponse)
        ELSE RecOk([item_id |-> item_id, item_name |-> to_string(codes[1]),
                    acronym |-> acronym, rap |-> AsU64(rap.v),
                    valued |-> (valued.v # -1), value |-> AsU64(value.v),
                    demand |-> demand.v, trend |-> trend.v,
                    projected |-> projected.v, hyped |-> hyped.v,
                    rare |-> rare.v])

\* ItemDetails::from_raw.  The slots are indexed without a length check, in
\* the order of the source: an index past the end of codes panics, unless
\* an earlier slot has already returned an error.
ItemDetails_from_raw(item_id, codes) ==
    LET n         == Len(codes)
        acronym   == IF to_string(codes[2]) = <<>> THEN None
                     ELSE Some(to_string(codes[2]))
        rap       == to_i64(codes[3])
        valued    == to_i64(codes[4])
        value     == to_i64(codes[5])
        demandc   == to_i64(codes[6])
        demand    == DemandOf(demandc.v)
        trendc    == to_i64(codes[7])
        trend     == TrendOf(trendc.v)
        projc     == to_i64(codes[8])
        projected == FlagOf(projc.v)
        hypedc    == to_i64(codes[9])
        hyped     == FlagOf(hypedc.v)
        rarec     == to_i64(codes[10])
        rare      == FlagOf(rarec.v)
    IN  IF n < 1 THEN RecPanic(IndexOutOfBounds)
        ELSE IF n < 2 THEN RecPanic(IndexOutOfBounds)
        ELSE IF n < 3 THEN RecPanic(IndexOutOfBounds)
        ELSE IF ~rap.ok THEN RecErr(MalformedResponse)
        ELSE IF n < 4 THEN RecPanic(IndexOutOfBounds)
        ELSE IF ~valued.ok THEN RecErr(MalformedResponse)
        ELSE IF n < 5 THEN RecPanic(IndexOutOfBounds)
        ELSE IF ~value.ok THEN RecErr(MalformedResponse)
        ELSE IF n < 6 THEN RecPanic(IndexOutOfBounds)
        ELSE IF ~demandc.ok \/ ~demand.ok THEN RecErr(MalformedResponse)
        ELSE IF n < 7 THEN RecPanic(IndexOutOfBounds)
        ELSE IF ~trendc.ok \/ ~trend.ok THEN RecErr(MalformedResponse)
        ELSE IF n < 8 THEN RecPanic(IndexOutOfBounds)
        ELSE IF ~projc.ok \/ ~projected.ok THEN RecErr(MalformedResponse)
        ELSE IF n < 9 THEN RecPanic(IndexOutOfBounds)
        ELSE IF ~hypedc.ok \/ ~hyped.ok THEN RecErr(MalformedResponse)
        ELSE IF n < 10 THEN RecPanic(IndexOutOfBounds)
        ELSE IF ~rarec.ok \/ ~rare.ok THEN RecErr(MalformedResponse)
        ELSE RecOk([item_id |-> item_id, item_name |-> to_string(codes[1]),
                    acronym |-> acronym, rap |-> AsU64(rap.v),
                    valued |-> (valued.v # -1), value |-> AsU64(value.v),
                    demand |-> demand.v, trend |-> trend.v,
                    projected |-> projected.v, hyped |-> hyped.v,
                    rare |-> rare.v])

----------------------------------------------------------------------------
(* games.rs: Game (decoded inside the loop of Client::games_list)          *)

Game_from_raw(id, game) ==
    LET n              == Len(game)
        players_active == to_i64(game[2])
    IN  IF n < 1 THEN RecPanic(IndexOutOfBounds)
        ELSE IF n < 2 THEN RecPanic(IndexOutOfBounds)
        ELSE IF ~players_active.ok THEN RecErr(MalformedResponse)
        ELSE IF n < 3 THEN RecPanic(IndexOutOfBounds)
        ELSE RecOk([id |-> id, name |-> to_string(game[1]),
                    players_active |-> AsU64(players_active.v),
                    thumbnail_url |-> to_string(game[3])])

----------------------------------------------------------------------------
(* groups.rs: GroupSearchResult                                            *)

\* GroupSearchResult::from_raw with the third slot read as a number.
GroupSearchResult_from_raw_reads_slot_3(codes) ==
    IF Len(codes) # 7 THEN RecErr(MalformedResponse)
    ELSE
    LET id           == to_i64(codes[1])
        unknown      == to_i64(codes[3])
        member_count == to_i64(codes[6])
    IN  IF ~id.ok THEN RecErr(MalformedResponse)
        ELSE IF ~unknown.ok THEN RecErr(MalformedResponse)
        ELSE IF ~member_count.ok THEN RecErr(MalformedResponse)
        ELSE RecOk([id |-> AsU64(id.v), name |-> to_string(codes[2]),
                    member_count |-> AsU64(member_count.v),
                    thumbnail_url |-> to_string(codes[7])])

GroupSearchResult_from_raw(codes) ==
    IF Len(codes) # 7 THEN RecErr(MalformedResponse)
    ELSE
    LET id           == to_i64(codes[1])
        member_count == to_i64(codes[6])
    IN  IF ~id.ok THEN RecErr(MalformedResponse)
        ELSE IF ~member_count.ok THEN RecErr(MalformedResponse)
        ELSE RecOk([id |-> AsU64(id.v), name |-> to_string(codes[2]),
                    member_count |-> AsU64(member_count.v),
                    thumbnail_url |-> to_string(codes[7])])

----------------------------------------------------------------------------
(* players.rs: PlayerSearchResult, PresenceType                            *)

PlayerSearchResult_from_raw(codes) ==
    IF Len(codes) # 2 /\ Len(codes) # 3 THEN RecErr(MalformedResponse)
    ELSE
    LET user_id == to_i64(codes[1])
    IN  IF ~user_id.ok THEN RecErr(MalformedResponse)
        ELSE RecOk([user_id |-> AsU64(user_id.v), username |-> to_string(codes[2])])

\* PresenceType::from_u8 with the codes above 3 clamped to the last
\* variant.
PresenceType_from_u8_clamped(value) ==
    CASE value = 0 -> "Unavailable"
      [] value = 1 -> "Website"
      [] value = 2 -> "InGame"
      [] value = 3 -> "InStudio"
      [] OTHER     -> "InStudio"

\* PresenceType::from_u8.
PresenceType_from_u8(value) ==
    CASE value = 0 -> "Unavailable"
      [] value = 1 -> "Website"
      [] value = 2 -> "InGame"
      [] value = 3 -> "InStudio"
      [] OTHER     -> "Unavailable"

----------------------------------------------------------------------------
(* The response body as a JSON value, and serde's typed deserialization.   *)
(* A value is tagged: "int" (field i), "str" (field s), "bool" (field b),  *)
(* "null", "arr" (field a, a sequence), "obj" (field o, a record of named  *)
(* fields), "map" (field m, a function from string keys to values);        *)
(* "text" is a body that is not JSON at all.                               *)

JInt(n) == [t |-> "int", i |-> n]

JStr(s) == [t |-> "str", s |-> s]

JBool(b) == [t |-> "bool", b |-> b]

JNull == [t |-> "null"]

JArr(a) == [t |-> "arr", a |-> a]

JObj(r) == [t |-> "obj", o |-> r]

JMap(f) == [t |-> "map", m |-> f]

JText == [t |-> "text"]

Has(j, f) == f \in DOMAIN j.o

IsBool(j) == j.t = "bool"

IsU64(j) == j.t = "int" /\ j.i >= 0 /\ j.i <= U64_MAX

IsI64(j) == j.t = "int" /\ InRangeI64(j.i)

IsU8(j) == j.t = "int" /\ j.i >= 0 /\ j.i <= 255

IsString(j) == j.t = "str"

\* #[serde(untagged)] Code: an i64 becomes Integer, a string becomes String,
\* anything else matches no variant.
IsCode(j) == IsI64(j) \/ IsString(j)

IsVecOf(j, P(_)) == j.t = "arr" /\ \A i \in 1..Len(j.a) : P(j.a[i])

IsMapOf(j, P(_)) == j.t = "map" /\ \A k \in DOMAIN j.m : P(j.m[k])

IsCodeVec(j) == IsVecOf(j, IsCode)

IsCodeVecVec(j) == IsVecOf(j, IsCodeVec)

IsU64Vec(j) == IsVecOf(j, IsU64)

IsU8Vec(j) == IsVecOf(j, IsU8)

\* A required field of type P / an Option field of type P.
Field(j, f, P(_)) == Has(j, f) /\ P(j.o[f])

OptField(j, f, P(_)) == ~Has(j, f) \/ j.o[f].t = "null" \/ P(j.o[f])

\* The payload of a JSON array of arrays, as Vec<Vec<_>>.
VecVec(j) == [i \in 1..Len(j.a) |-> j.a[i].a]

\* The payload of a JSON object of arrays, as HashMap<String, Vec<_>>.
MapVec(j) == [k \in DOMAIN j.m |-> j.m[k].a]

NoEnvelope == [ok |-> FALSE]

\* response.json::<DealsActivityResponse>()
DealsActivityResponse(body) ==
    IF body.t = "obj" /\ Field(body, "success", IsBool)
       /\ Field(body, "activities", IsCodeVecVec)
    THEN [ok |-> TRUE, success |-> body.o.success.b,
          activities |-> VecVec(body.o.activities)]
    ELSE NoEnvelope

\* response.json::<RecentSalesResponse>()
RecentSalesResponse(body) ==
    IF body.t = "obj" /\ Field(body, "success", IsBool)
       /\ Field(body, "activities", IsCodeVecVec)
       /\ Field(body, "activities_count", IsU64)
    THEN [ok |-> TRUE, success |-> body.o.success.b,
          activities |-> VecVec(body.o.activities),
          activities_count |-> body.o.activities_count.i]
    ELSE NoEnvelope

\* response.json::<GroupSearchResponse>()
GroupSearchResponse(body) ==
    IF body.t = "obj" /\ Field(body, "success", IsBool)
       /\ Field(body, "result_count", IsI64)
       /\ Field(body, "groups", IsCodeVecVec)
    THEN [ok |-> TRUE, success |-> body.o.success.b,
          result_count |-> body.o.result_count.i,
          groups |-> VecVec(body.o.groups)]
    ELSE NoEnvelope

\* response.json::<PlayerSearchResponse>()
PlayerSearchResponse(body) ==
    IF body.t = "obj" /\ Field(body, "success", IsBool)
       /\ Field(body, "result_count", IsI64)
       /\ Field(body, "players", IsCodeVecVec)
    THEN [ok |-> TRUE, success |-> body.o.success.b,
          result_count |-> body.o.result_count.i,
          players |-> VecVec(body.o.players)]
    ELSE NoEnvelope

IsCodeVecMap(j) == IsMapOf(j, IsCodeVec)

\* response.json::<AllItemDetailsResponse>()
AllItemDetailsResponse(body) ==
    IF body.t = "obj" /\ Field(body, "success", IsBool)
       /\ Field(body, "item_count", IsU64)
       /\ Field(body, "items", IsCodeVecMap)
    THEN [ok |-> TRUE, success |-> body.o.success.b,
          item_count |-> body.o.item_count.i,
          items |-> MapVec(body.o.items)]
    ELSE NoEnvelope

\* response.json::<GamesListResponse>()
GamesListResponse(body) ==
    IF body.t = "obj" /\ Field(body, "success", IsBool)
       /\ Field(body, "game_count", IsI64)
       /\ Field(body, "games", IsCodeVecMap)
    THEN [ok |-> TRUE, success |-> body.o.success.b,
          game_count |-> body.o.game_count.i,
          games |-> MapVec(body.o.games)]
    ELSE NoEnvelope

IsU64VecMap(j) == IsMapOf(j, IsU64Vec)

IsU64Map(j) == IsMapOf(j, IsU64)

\* response.json::<PlayerProfileResponse>()
PlayerProfileResponse(body) ==
    IF body.t = "obj" /\ Field(body, "success", IsBool)
       /\ Field(body, "playerTerminated", IsBool)
       /\ Field(body, "playerPrivacyEnabled", IsBool)
       /\ Field(body, "playerVerified", IsBool)
       /\ Field(body, "playerId", IsU64)
       /\ Field(body, "chartNominalScanTime", IsU64)
       /\ Field(body, "playerAssets", IsU64VecMap)
       /\ Field(body, "isOnline", IsBool)
       /\ Field(body, "presenceType", IsU8)
       /\ Field(body, "lastOnline", IsU64)
       /\ Field(body, "lastLocation", IsString)
       /\ OptField(body, "lastPlaceId", IsU64)
       /\ Field(body, "locationGameIsTracked", IsBool)
       /\ OptField(body, "locationGameIconUrl", IsString)
       /\ Field(body, "premium", IsBool)
       /\ Field(body, "badges", IsU64Map)
    THEN [ok |-> TRUE, success |-> body.o.success.b,
          player_terminated |-> body.o.playerTerminated.b,
          player_privacy_enabled |-> body.o.playerPrivacyEnabled.b,
          player_id |-> body.o.playerId.i,
          player_assets |-> MapVec(body.o.playerAssets),
          is_online |-> body.o.isOnline.b,
          presence_type |-> body.o.presenceType.i,
          last_online |-> body.o.lastOnline.i,
          premium |-> body.o.premium.b,
          badges |-> [k \in DOMAIN body.o.badges.m |-> body.o.badges.m[k].i]]
    ELSE NoEnvelope

\* Deserialize for Offer: items is required, robux is an Option.
IsOffer(j) == j.t = "obj" /\ Field(j, "items", IsU64Vec) /\ OptField(j, "robux", IsU64)

\* Deserialize for RequestRaw: both fields are #[serde(default)].
IsRequestRaw(j) ==
    j.t = "obj" /\ (~Has(j, "tags") \/ IsU8Vec(j.o.tags))
               /\ (~Has(j, "items") \/ IsU64Vec(j.o.items))

\* Deserialize for the tuple (u64, u64, u64, String, Offer, RequestRaw).
IsTradeAdTuple(j) ==
    j.t = "arr" /\ Len(j.a) = 6 /\ IsU64(j.a[1]) /\ IsU64(j.a[2]) /\ IsU64(j.a[3])
               /\ IsString(j.a[4]) /\ IsOffer(j.a[5]) /\ IsRequestRaw(j.a[6])

IsTradeAdTupleVec(j) == IsVecOf(j, IsTradeAdTuple)

\* The payload of a JSON array of integers, as Vec<u64> or Vec<u8>.
VecOf(j) == [i \in 1..Len(j.a) |-> j.a[i].i]

OfferOf(j) ==
    [items |-> VecOf(j.o.items),
     robux |-> IF Has(j, "robux") /\ j.o.robux.t = "int" THEN SomeU64(j.o.robux.i)
               ELSE NoneU64]

RequestRawOf(j) ==
    [tags  |-> IF Has(j, "tags") THEN VecOf(j.o.tags) ELSE <<>>,
     items |-> IF Has(j, "items") THEN VecOf(j.o.items) ELSE <<>>]

\* response.json::<RecentTradeAdsResponse>()
RecentTradeAdsResponse(body) ==
    IF body.t = "obj" /\ Field(body, "success", IsBool)
       /\ Field(body, "trade_ad_count", IsU64)
       /\ Field(body, "trade_ads", IsTradeAdTupleVec)
    THEN [ok |-> TRUE, success |-> body.o.success.b,
          trade_ad_count |-> body.o.trade_ad_count.i,
          trade_ads |-> [i \in 1..Len(body.o.trade_ads.a) |->
                           LET e == body.o.trade_ads.a[i].a
                           IN  [trade_id |-> e[1].i, timestamp |-> e[2].i,
                                user_id |-> e[3].i, username |-> e[4].s,
                                offer |-> OfferOf(e[5]),
                                request_raw |-> RequestRawOf(e[6])]]]
    ELSE NoEnvelope

----------------------------------------------------------------------------
(* trade_ads.rs: RequestTag, Request                                       *)

\* The variants of enum RequestTag.
RequestTag ==
    {"Any", "Demand", "Rares", "Robux", "Upgrade", "Downgrade", "Rap", "Wishlist",
     "Projecteds", "Adds"}

\* impl TryFrom<u8> for RequestTag with `_ => Ok(Self::default())` as its
\* last arm: a code outside the table is taken for Any.
RequestTag_try_from_default_any(value) ==
    CASE value = 1  -> [ok |-> TRUE, v |-> "Demand"]
      [] value = 2  -> [ok |-> TRUE, v |-> "Rares"]
      [] value = 3  -> [ok |-> TRUE, v |-> "Robux"]
      [] value = 4  -> [ok |-> TRUE, v |-> "Any"]
      [] value = 5  -> [ok |-> TRUE, v |-> "Upgrade"]
      [] value = 6  -> [ok |-> TRUE, v |-> "Downgrade"]
      [] value = 7  -> [ok |-> TRUE, v |-> "Rap"]
      [] value = 8  -> [ok |-> TRUE, v |-> "Wishlist"]
      [] value = 9  -> [ok |-> TRUE, v |-> "Projecteds"]
      [] value = 10 -> [ok |-> TRUE, v |-> "Adds"]
      [] OTHER      -> [ok |-> TRUE, v |-> "Any"]

\* impl TryFrom<u8> for RequestTag.
RequestTag_try_from(value) ==
    CASE value = 1  -> [ok |-> TRUE, v |-> "Demand"]
      [] value = 2  -> [ok |-> TRUE, v |-> "Rares"]
      [] value = 3  -> [ok |-> TRUE, v |-> "Robux"]
      [] value = 4  -> [ok |-> TRUE, v |-> "Any"]
      [] value = 5  -> [ok |-> TRUE, v |-> "Upgrade"]
      [] value = 6  -> [ok |-> TRUE, v |-> "Downgrade"]
      [] value = 7  -> [ok |-> TRUE, v |-> "Rap"]
      [] value = 8  -> [ok |-> TRUE, v |-> "Wishlist"]
      [] value = 9  -> [ok |-> TRUE, v |-> "Projecteds"]
      [] value = 10 -> [ok |-> TRUE, v |-> "Adds"]
      [] OTHER      -> [ok |-> FALSE, v |-> "none"]

\* impl TryFrom<RequestRaw> for Request: the first tag without a variant
\* returns the error.
Request_try_from(value) ==
    IF \E i \in 1..Len(value.tags) : ~RequestTag_try_from(value.tags[i]).ok
    THEN RecErr(MalformedResponse)
    ELSE RecOk([items |-> value.items,
                tags  |-> [i \in 1..Len(value.tags) |->
                             RequestTag_try_from(value.tags[i]).v]])

\* The body of the loop of Client::recent_trade_ads.
TradeAd_from_raw(e) ==
    LET request == Request_try_from(e.request_raw)
    IN  IF request.kind # "Ok" THEN request
        ELSE RecOk([trade_id |-> e.trade_id, timestamp |-> e.timestamp,
                    user_id |-> e.user_id, username |-> e.username,
                    offer |-> e.offer, request |-> request.value[1]])

----------------------------------------------------------------------------
(* Outcomes of a Client method: Ok(collection), Err(RoliError) or a panic. *)
(* code is the payload of UnidentifiedStatusCode, cause the payload of     *)
(* ReqwestError; decoded counts the record decoding steps that were run.   *)

OpOk(values, n) ==
    [kind |-> "Ok", err |-> "none", code |-> 0, cause |-> "none",
     value |-> values, decoded |-> n]

OpErr(e, n) ==
    [kind |-> "Err", err |-> e, code |-> 0, cause |-> "none",
     value |-> <<>>, decoded |-> n]

OpErrStatus(status_code) ==
    [kind |-> "Err", err |-> UnidentifiedStatusCode, code |-> status_code,
     cause |-> "none", value |-> <<>>, decoded |-> 0]

OpErrReqwest(e) ==
    [kind |-> "Err", err |-> ReqwestError, code |-> 0, cause |-> e,
     value |-> <<>>, decoded |-> 0]

OpPanic(why, n) ==
    [kind |-> "Panic", err |-> why, code |-> 0, cause |-> "none",
     value |-> <<>>, decoded |-> n]

\* for x in xs { out.push(F(x)?) } Ok(out): the records are decoded in
\* order, and the first one that does not decode ends the method with its
\* error (or its panic); the records after it are not decoded.
DecodeEach(F(_), xs) ==
    LET outs == [i \in 1..Len(xs) |-> F(xs[i])]
        bad  == {i \in 1..Len(xs) : outs[i].kind # "Ok"}
        k    == CHOOSE i \in bad : \A j \in bad : i <= j
    IN  IF bad = {} THEN OpOk([i \in 1..Len(xs) |-> outs[i].value[1]], Len(xs))
        ELSE IF outs[k].kind = "Err" THEN OpErr(outs[k].err, k)
        ELSE OpPanic(outs[k].err, k)

\* The (key, value) pairs of a HashMap in the order its iterator yields
\* them; order is a sequence that lists every key once.
Entries(map, order) == [i \in 1..Len(order) |-> [key |-> order[i], val |-> map[order[i]]]]

Orders(S) ==
    {o \in [1..Cardinality(S) -> S] : \A k \in S : \E i \in 1..Cardinality(S) : o[i] = k}

----------------------------------------------------------------------------
(* The Client methods.  resp is what `.send().await` returned: a response  *)
(* with a status and a body (resp.ok), or a reqwest error.                 *)

Todo == "not yet implemented"

\* Client::deals_activity
deals_activity(resp) ==
    IF ~resp.ok THEN OpPanic(Todo, 0)
    ELSE IF resp.status = 200 THEN
        LET raw == DealsActivityResponse(resp.body)
        IN  IF ~raw.ok THEN OpErr(MalformedResponse, 0)
            ELSE DecodeEach(Activity_from_raw, raw.activities)
    ELSE OpPanic(Todo, 0)

\* Client::recent_sales with activities_count compared with the number of
\* activities.
recent_sales_count_compared(resp, overflow_checks) ==
    IF ~resp.ok THEN OpErrReqwest(resp.error)
    ELSE IF resp.status = 200 THEN
        LET raw == RecentSalesResponse(resp.body)
            Dec(codes) == Sale_from_raw(codes, overflow_checks)
        IN  IF ~raw.ok THEN OpErr(MalformedResponse, 0)
            ELSE IF ~raw.success THEN OpErr(RequestReturnedUnsuccessful, 0)
            ELSE IF raw.activities_count # Len(raw.activities)
                 THEN OpErr(MalformedResponse, 0)
            ELSE DecodeEach(Dec, raw.activities)
    ELSE IF resp.status = 429 THEN OpErr(TooManyRequests, 0)
    ELSE IF resp.status = 500 THEN OpErr(InternalServerError, 0)
    ELSE OpErrStatus(resp.status)

\* Client::recent_sales
recent_sales(resp, overflow_checks) ==
    IF ~resp.ok THEN OpErrReqwest(resp.error)
    ELSE IF resp.status = 200 THEN
        LET raw == RecentSalesResponse(resp.body)
            Dec(codes) == Sale_from_raw(codes, overflow_checks)
        IN  IF ~raw.ok THEN OpErr(MalformedResponse, 0)
            ELSE IF ~raw.success THEN OpErr(RequestReturnedUnsuccessful, 0)
            ELSE DecodeEach(Dec, raw.activities)
    ELSE IF resp.status = 429 THEN OpErr(TooManyRequests, 0)
    ELSE IF resp.status = 500 THEN OpErr(InternalServerError, 0)
    ELSE OpErrStatus(resp.status)

\* Client::group_search
group_search(resp) ==
    IF ~resp.ok THEN OpErrReqwest(resp.error)
    ELSE IF resp.status = 200 THEN
        LET raw == GroupSearchResponse(resp.body)
        IN  IF ~raw.ok THEN OpErr(MalformedResponse, 0)
            ELSE IF ~raw.success THEN OpErr(RequestReturnedUnsuccessful, 0)
            ELSE DecodeEach(GroupSearchResult_from_raw, raw.groups)
    ELSE IF resp.status = 429 THEN OpErr(TooManyRequests, 0)
    ELSE IF resp.status = 500 THEN OpErr(InternalServerError, 0)
    ELSE OpErrStatus(resp.status)

\* Client::player_search
player_search(resp) ==
    IF ~resp.ok THEN OpErrReqwest(resp.error)
    ELSE IF resp.status = 200 THEN
        LET raw == PlayerSearchResponse(resp.body)
        IN  IF ~raw.ok THEN OpErr(MalformedResponse, 0)
            ELSE IF ~raw.success THEN OpErr(RequestReturnedUnsuccessful, 0)
            ELSE DecodeEach(PlayerSearchResult_from_raw, raw.players)
    ELSE IF resp.status = 429 THEN OpErr(TooManyRequests, 0)
    ELSE IF resp.status = 500 THEN OpErr(InternalServerError, 0)
    ELSE OpErrStatus(resp.status)

\* AllItemDetailsResponse::into_vec: one loop step parses the key and
\* decodes the value.
ItemEntry(e) ==
    LET item_id == ParseU64(e.key)
    IN  IF ~item_id.ok THEN RecErr(MalformedResponse)
        ELSE ItemDetails_from_raw(item_id.v, e.val)

into_vec(items, order) == DecodeEach(ItemEntry, Entries(items, order))

\* Client::all_item_details with `.unwrap_or_default()` in place of the
\* match on the result of response.json(): a body that is no envelope is
\* taken for an empty one.
all_item_details_default_envelope(resp, order) ==
    IF ~resp.ok THEN OpErrReqwest(resp.error)
    ELSE IF resp.status = 200 THEN
        LET raw == AllItemDetailsResponse(resp.body)
        IN  IF ~raw.ok THEN OpOk(<<>>, 0)
            ELSE into_vec(raw.items, order)
    ELSE IF resp.status = 429 THEN OpErr(TooManyRequests, 0)
    ELSE IF resp.status = 500 THEN OpErr(InternalServerError, 0)
    ELSE OpErrStatus(resp.status)

\* Client::all_item_details
all_item_details(resp, order) ==
    IF ~resp.ok THEN OpErrReqwest(resp.error)
    ELSE IF resp.status = 200 THEN
        LET raw == AllItemDetailsResponse(resp.body)
        IN  IF ~raw.ok THEN OpErr(MalformedResponse, 0)
            ELSE into_vec(raw.items, order)
    ELSE IF resp.status = 429 THEN OpErr(TooManyRequests, 0)
    ELSE IF resp.status = 500 THEN OpErr(InternalServerError, 0)
    ELSE OpErrStatus(resp.status)

\* One step of the loop of Client::games_list.
GameEntry(e) ==
    LET id == ParseU64(e.key)
    IN  IF ~id.ok THEN RecErr(MalformedResponse)
        ELSE Game_from_raw(id.v, e.val)

\* Client::games_list
games_list(resp, order) ==
    IF ~resp.ok THEN OpErrReqwest(resp.error)
    ELSE IF resp.status = 200 THEN
        LET raw == GamesListResponse(resp.body)
        IN  IF ~raw.ok THEN OpErr(MalformedResponse, 0)
            ELSE IF ~raw.success THEN OpErr(RequestReturnedUnsuccessful, 0)
            ELSE DecodeEach(GameEntry, Entries(raw.games, order))
    ELSE IF resp.status = 429 THEN OpErr(TooManyRequests, 0)
    ELSE IF resp.status = 500 THEN OpErr(InternalServerError, 0)
    ELSE OpErrStatus(resp.status)

\* One step of the inventory loop of Client::player_profile.
AssetEntry(e) ==
    LET item_id == ParseU64(e.key)
    IN  IF ~item_id.ok THEN RecErr(MalformedResponse)
        ELSE RecOk([item_id |-> item_id.v, uaids |-> e.val])

\* One step of the badges loop of Client::player_profile.
BadgeEntry(e) == RecOk([name |-> e.key, timestamp_earned |-> e.val])

\* Client::player_profile
player_profile(resp, badge_order, asset_order) ==
    IF ~resp.ok THEN OpErrReqwest(resp.error)
    ELSE IF resp.status = 200 THEN
        LET raw == PlayerProfileResponse(resp.body)
            badges == DecodeEach(BadgeEntry, Entries(raw.badges, badge_order))
            inventory == DecodeEach(AssetEntry, Entries(raw.player_assets, asset_order))
        IN  IF ~raw.ok THEN OpErr(MalformedResponse, 0)
            ELSE IF ~raw.success THEN OpErr(RequestReturnedUnsuccessful, 0)
            ELSE IF inventory.kind # "Ok"
                 THEN OpErr(inventory.err, badges.decoded + inventory.decoded)
            ELSE OpOk(<<[user_id |-> raw.player_id,
                         terminated |-> raw.player_terminated,
                         privated |-> raw.player_privacy_enabled,
                         inventory |-> inventory.value,
                         is_online |-> raw.is_online,
                         presence_type |-> PresenceType_from_u8(raw.presence_type),
                         last_online |-> raw.last_online,
                         premium |-> raw.premium,
                         badges |-> badges.value]>>,
                      badges.decoded + inventory.decoded)
    ELSE IF resp.status = 429 THEN OpErr(TooManyRequests, 0)
    ELSE IF resp.status = 500 THEN OpErr(InternalServerError, 0)
    ELSE OpErrStatus(resp.status)

\* Client::recent_trade_ads
recent_trade_ads(resp) ==
    IF ~resp.ok THEN OpErrReqwest(resp.error)
    ELSE IF resp.status = 200 THEN
        LET raw == RecentTradeAdsResponse(resp.body)
        IN  IF ~raw.ok THEN OpErr(MalformedResponse, 0)
            ELSE DecodeEach(TradeAd_from_raw, raw.trade_ads)
    ELSE IF resp.status = 429 THEN OpErr(TooManyRequests, 0)
    ELSE IF resp.status = 500 THEN OpErr(InternalServerError, 0)
    ELSE OpErrStatus(resp.status)

\* HeaderValue::from_str accepts the bytes of a header value: visible
\* ASCII, space, tab and the bytes above 127.
HeaderSafe(token) == \A i \in 1..Len(token) : (token[i] >= 32 /\ token[i] # 127) \/ token[i] = 9

\* The header stage of Client::create_trade_ad with the token put in the
\* cookie header as it is.
create_trade_ad_headers_unvalidated(verification) ==
    IF ~verification.some THEN OpErr(RoliVerificationNotSet, 0)
    ELSE OpOk(<<>>, 0)

\* Client::create_trade_ad up to the request: the header stage returns
\* early, before anything is sent, without a (usable) token.
create_trade_ad_headers(verification) ==
    IF ~verification.some THEN OpErr(RoliVerificationNotSet, 0)
    ELSE IF ~HeaderSafe(verification.v) THEN OpErr(RoliVerificationContainsInvalidCharacters, 0)
    ELSE OpOk(<<>>, 0)

\* Client::create_trade_ad
create_trade_ad(verification, resp) ==
    IF create_trade_ad_headers(verification).kind # "Ok"
    THEN create_trade_ad_headers(verification)
    ELSE IF ~resp.ok THEN OpErrReqwest(resp.error)
    ELSE IF resp.status = 201 THEN OpOk(<<>>, 0)
    ELSE IF resp.status = 400 THEN OpErr(CooldownNotExpired, 0)
    ELSE IF resp.status = 422 THEN OpErr(RoliVerificationInvalidOrExpired, 0)
    ELSE IF resp.status = 429 THEN OpErr(TooManyRequests, 0)
    ELSE OpErrStatus(resp.status)

----------------------------------------------------------------------------
(* State                                                                   *)

VARIABLES
    roli_verification,  \* Client.roli_verification: None or Some(token)
    pc,                 \* "idle": no call in progress; "done": a call has ended
    call,               \* the call that ended: its name and its inputs
    result,             \* what the call returned (or that it panicked)
    sent,               \* the number of requests the call handed to reqwest
    reqwest_client,     \* Client.reqwest_client: which reqwest client it holds
    builder             \* the ClientBuilder in use while pc = "building"

vars == <<roli_verification, pc, call, result, sent, reqwest_client, builder>>

\* A reqwest::Client is known by its name: the one Default makes, or one
\* the caller made; NoReqwest is the None of the builder's Option.
DefaultReqwest == "default"

CustomReqwest == "custom"

NoReqwest == "none"

\* Client::new()
Client_new == [roli_verification |-> None, reqwest_client |-> DefaultReqwest]

\* Client::with_roli_verification
Client_with_roli_verification(token) ==
    [roli_verification |-> Some(token), reqwest_client |-> DefaultReqwest]

\* Client::contains_roli_verification
contains_roli_verification == roli_verification.some

\* ClientBuilder::new()
ClientBuilder_new == [roli_verification |-> None, reqwest_client |-> NoReqwest]

\* ClientBuilder::set_roli_verification
ClientBuilder_set_roli_verification(b, token) ==
    [b EXCEPT !.roli_verification = Some(token)]

\* ClientBuilder::set_reqwest_client
ClientBuilder_set_reqwest_client(b, client) == [b EXCEPT !.reqwest_client = client]

\* ClientBuilder::build with `..Default::default()` for the fields other
\* than the reqwest client: the token of the builder is dropped.
ClientBuilder_build_default_token(b) ==
    [roli_verification |-> None,
     reqwest_client |-> IF b.reqwest_client = NoReqwest THEN DefaultReqwest
                        ELSE b.reqwest_client]

\* ClientBuilder::build
ClientBuilder_build(b) ==
    [roli_verification |-> b.roli_verification,
     reqwest_client |-> IF b.reqwest_client = NoReqwest THEN DefaultReqwest
                        ELSE b.reqwest_client]

\* The builder once build(self) has consumed it, or when none was made.
NoBuilder == [roli_verification |-> None, reqwest_client |-> "moved"]

NoCall == [op |-> "none"]

NoResult == [kind |-> "none", err |-> "none", code |-> 0, cause |-> "none",
             value |-> <<>>, decoded |-> 0]

----------------------------------------------------------------------------
(* Inputs of the record decoders                                           *)

\* The longest payload collection (records of a list, keys of a map).
MaxRecords == 2

Str_x == <<"x">>

Str_7 == <<"7">>

\* Scalars of every kind: negative, zero and positive integers, and strings
\* that are a number, a signed number, text, and empty.
ScalarCodes ==
    {CodeInteger(-1), CodeInteger(0), CodeInteger(1), CodeInteger(108),
     CodeString(Str_7), CodeString(<<"-", "2">>), CodeString(Str_x)}

FewCodes == {CodeInteger(1), CodeString(Str_x)}

\* All sequences over S of lengths lo..hi.
SeqsOf(S, lo, hi) == UNION {[1..n -> S] : n \in lo..hi}

ActivityInputs ==
    [1..5 -> ScalarCodes] \cup SeqsOf(FewCodes, 0, 4) \cup SeqsOf(FewCodes, 6, 6)

TextCodes == {CodeInteger(5), CodeString(Str_7), CodeString(Str_x)}

ActivityTypeCodes ==
    {CodeInteger(1), CodeInteger(0), CodeInteger(2), CodeInteger(-1),
     CodeString(<<"1">>), CodeString(Str_x)}

RapCodes ==
    {CodeInteger(0), CodeInteger(4272), CodeInteger(4314), CodeInteger(100),
     CodeInteger(50), CodeInteger(-1), CodeInteger(I64_MAX), CodeInteger(I64_MIN),
     CodeString(<<"5", "0">>), CodeString(Str_x)}

SaleInputs ==
    {<<ts, ty, id, old, new, sid>> :
        ts \in TextCodes, ty \in ActivityTypeCodes, id \in {CodeInteger(3), CodeString(Str_x)},
        old \in RapCodes, new \in RapCodes, sid \in {CodeInteger(9), CodeString(Str_x)}}
    \cup SeqsOf(FewCodes, 0, 5) \cup SeqsOf(FewCodes, 7, 7)

\* The item array of the tests of items.rs, with smaller numbers.
ItemBase ==
    <<CodeString(<<"N">>), CodeString(<<"T", "I">>), CodeInteger(100), CodeInteger(1),
      CodeInteger(200), CodeInteger(3), CodeInteger(4), CodeInteger(1), CodeInteger(1),
      CodeInteger(1)>>

ItemSlotCodes ==
    {CodeInteger(n) : n \in -2..5} \cup
    {CodeString(<<>>), CodeString(Str_x), CodeString(<<"-", "1">>), CodeString(<<"1">>)}

\* ItemBase with one or two slots replaced, every prefix of ItemBase with
\* one slot replaced, and ItemBase with slots added.
ItemInputs ==
    {[[ItemBase EXCEPT ![i] = a] EXCEPT ![j] = b] :
        i \in 1..10, j \in 1..10, a \in ItemSlotCodes, b \in ItemSlotCodes}
    \cup {SubSeq([ItemBase EXCEPT ![i] = a], 1, n) :
        i \in 1..10, a \in ItemSlotCodes, n \in 0..10}
    \cup {ItemBase \o t : t \in SeqsOf(FewCodes, 1, 2)}

ItemIds == {0, 123}

GameInputs == SeqsOf(TextCodes \cup {CodeInteger(-1)}, 0, 4)

GroupInputs ==
    {<<id, nm, a, b, c, mc, th>> :
        id \in TextCodes, nm \in {CodeString(<<"G">>), CodeInteger(5)},
        a \in FewCodes, b \in FewCodes, c \in FewCodes,
        mc \in TextCodes \cup {CodeInteger(-1)}, th \in {CodeString(<<"u">>)}}
    \cup SeqsOf(FewCodes, 0, 6) \cup SeqsOf(FewCodes, 8, 8)

PlayerInputs == SeqsOf(TextCodes \cup {CodeInteger(-1)}, 0, 4)

\* Integers at the ends and in the middle of the i64 range.
I64Samples ==
    {I64_MIN, I64_MIN + 1, -108, -10, -1, 0, 1, 9, 10, 108, I64_MAX - 1, I64_MAX}

\* Strings that are not the rendering of an i64: empty, text, lone signs,
\* a sign or zeros in front, digits with other characters, and digits of a
\* number just outside or far outside the range.
OddStrings ==
    {<<>>, Str_x, <<"-">>, <<"+">>, <<"+", "5">>, <<"0", "0", "7">>, <<"-", "0">>,
     <<"1", "x">>, <<" ", "1">>, <<"1", " ">>, <<"1", ".", "5">>, <<"1", "e", "3">>,
     <<"-", "-", "1">>, <<"+", "-", "1">>, <<"-", "x">>,
     RenderNat(I64_MAX + 1), <<"-">> \o RenderNat(I64_MAX + 2),
     <<"+">> \o RenderNat(I64_MAX), RenderNat(10 * I64_MAX)}

ToI64Inputs ==
    {CodeInteger(n) : n \in I64Samples}
    \cup {CodeString(RenderI64(n)) : n \in I64Samples}
    \cup {CodeString(x) : x \in OddStrings}

----------------------------------------------------------------------------
(* The record decoders applied to one array, as the unit tests apply them  *)

InitDecode ==
    /\ roli_verification = None
    /\ pc = "idle"
    /\ call = NoCall
    /\ result = NoResult
    /\ sent = 0
    /\ reqwest_client = DefaultReqwest
    /\ builder = NoBuilder

Decoded(name, codes, out) ==
    /\ pc' = "done"
    /\ call' = [op |-> name, codes |-> codes]
    /\ result' = out
    /\ UNCHANGED <<roli_verification, sent, reqwest_client, builder>>

ActivityFromRaw ==
    /\ pc = "idle"
    /\ \E codes \in ActivityInputs :
        Decoded("Activity", codes, Activity_from_raw(codes))

SaleFromRaw ==
    /\ pc = "idle"
    /\ \E codes \in SaleInputs, overflow_checks \in BOOLEAN :
        /\ pc' = "done"
        /\ call' = [op |-> "Sale", codes |-> codes, overflow_checks |-> overflow_checks]
        /\ result' = Sale_from_raw(codes, overflow_checks)
        /\ UNCHANGED <<roli_verification, sent, reqwest_client, builder>>

ItemDetailsFromRaw ==
    /\ pc = "idle"
    /\ \E codes \in ItemInputs, item_id \in ItemIds :
        /\ pc' = "done"
        /\ call' = [op |-> "ItemDetails", codes |-> codes, item_id |-> item_id]
        /\ result' = ItemDetails_from_raw(item_id, codes)
        /\ UNCHANGED <<roli_verification, sent, reqwest_client, builder>>

GameFromRaw ==
    /\ pc = "idle"
    /\ \E codes \in GameInputs, id \in ItemIds :
        /\ pc' = "done"
        /\ call' = [op |-> "Game", codes |-> codes, item_id |-> id]
        /\ result' = Game_from_raw(id, codes)
        /\ UNCHANGED <<roli_verification, sent, reqwest_client, builder>>

GroupSearchResultFromRaw ==
    /\ pc = "idle"
    /\ \E codes \in GroupInputs :
        Decoded("GroupSearchResult", codes, GroupSearchResult_from_raw(codes))

PlayerSearchResultFromRaw ==
    /\ pc = "idle"
    /\ \E codes \in PlayerInputs :
        Decoded("PlayerSearchResult", codes, PlayerSearchResult_from_raw(codes))

\* Code::to_i64 applied to one scalar.
CodeToI64 ==
    /\ pc = "idle"
    /\ \E c \in ToI64Inputs :
        Decoded("to_i64", <<c>>,
                IF to_i64(c).ok THEN RecOk(to_i64(c).v) ELSE RecErr(MalformedResponse))

NextDecode ==
    \/ CodeToI64
    \/ ActivityFromRaw
    \/ SaleFromRaw
    \/ ItemDetailsFromRaw
    \/ GameFromRaw
    \/ GroupSearchResultFromRaw
    \/ PlayerSearchResultFromRaw

SpecDecode == InitDecode /\ [][NextDecode]_vars

----------------------------------------------------------------------------
(* What the transport hands to a Client method                             *)

StatusCodes == {200, 201, 400, 404, 422, 429, 500, 503}

TransportErrors == {"timeout", "connect"}

Response(status, body) == [ok |-> TRUE, status |-> status, body |-> body]

Failure(e) == [ok |-> FALSE, error |-> e]

\* Every transport outcome of a fetching method: status 200 with each of
\* bodies, every other status with each of others, and every failure.
Responses(bodies, others) ==
    {Response(200, b) : b \in bodies}
    \cup {Response(st, b) : st \in StatusCodes \ {200}, b \in others}
    \cup {Failure(e) : e \in TransportErrors}

\* All JSON arrays of 0..MaxRecords elements of recs.
JArrays(recs) == {JArr(a) : a \in SeqsOf(recs, 0, MaxRecords)}

\* All JSON objects with at most MaxRecords keys out of keys, with values
\* out of vals.
JMaps(keys, vals) ==
    {JMap(f) : f \in UNION {[K -> vals] : K \in {X \in SUBSET keys : Cardinality(X) <= MaxRecords}}}

\* Bodies that are not an envelope whatever the endpoint: not JSON, not an
\* object, an object without the fields, a success flag that is no boolean.
BadBodies ==
    {JText, JNull, JArr(<<>>), JObj([other |-> JInt(1)]),
     JObj([success |-> JInt(1)])}

ActivityRecs ==
    {JArr(<<JInt(5), JInt(0), JStr(Str_7), JInt(0), JInt(108)>>),
     JArr(<<JInt(5), JInt(1), JStr(Str_7), JInt(0), JInt(92)>>),
     JArr(<<JInt(5), JInt(0), JStr(Str_7), JInt(0)>>),
     JArr(<<JInt(5), JInt(0), JStr(Str_7), JInt(0), JStr(Str_x)>>)}

DealsBodies ==
    {JObj([success |-> JBool(b), activities |-> a]) :
        b \in BOOLEAN, a \in JArrays(ActivityRecs)}
    \cup BadBodies
    \cup {JObj([success |-> JBool(TRUE)]),
          JObj([success |-> JBool(TRUE), activities |-> JArr(<<JArr(<<JNull>>)>>)])}

DealsResponses ==
    Responses(DealsBodies,
              {JText, JObj([success |-> JBool(TRUE), activities |-> JArr(<<>>)])})

SaleRecs ==
    {JArr(<<JInt(5), JInt(1), JInt(3), JInt(4272), JInt(4314), JInt(9)>>),
     JArr(<<JInt(5), JInt(2), JInt(3), JInt(4272), JInt(4314), JInt(9)>>),
     JArr(<<JInt(5), JInt(1), JInt(3), JInt(4272), JInt(4314)>>),
     JArr(<<JInt(5), JInt(1), JInt(3), JInt(I64_MAX), JInt(-1), JInt(9)>>)}

SalesBodies ==
    {JObj([success |-> JBool(b), activities |-> a, activities_count |-> JInt(n)]) :
        b \in BOOLEAN, a \in JArrays(SaleRecs), n \in {0, 2}}
    \cup BadBodies
    \cup {JObj([success |-> JBool(TRUE), activities |-> JArr(<<>>)]),
          JObj([success |-> JBool(TRUE), activities |-> JArr(<<>>),
                activities_count |-> JInt(-1)])}

SalesResponses ==
    Responses(SalesBodies,
              {JText, JObj([success |-> JBool(TRUE), activities |-> JArr(<<>>),
                            activities_count |-> JInt(0)])})

GroupRecs ==
    {JArr(<<JInt(4), JStr(<<"G">>), JInt(16), JInt(1), JInt(0), JInt(36),
            JStr(<<"u">>)>>),
     JArr(<<JInt(7), JStr(<<"H">>), JInt(16), JInt(1), JInt(0), JInt(2),
            JStr(<<"u">>)>>),
     JArr(<<JInt(4), JStr(<<"G">>), JInt(16), JInt(1), JInt(0), JInt(36)>>),
     JArr(<<JInt(4), JStr(<<"G">>), JInt(16), JInt(1), JInt(0), JStr(Str_x),
            JStr(<<"u">>)>>)}

GroupBodies ==
    {JObj([success |-> JBool(b), result_count |-> JInt(1), groups |-> a]) :
        b \in BOOLEAN, a \in JArrays(GroupRecs)}
    \cup BadBodies
    \cup {JObj([success |-> JBool(TRUE), groups |-> JArr(<<>>)]),
          JObj([success |-> JBool(TRUE), result_count |-> JInt(1),
                groups |-> JArr(<<JInt(4)>>)])}

GroupResponses ==
    Responses(GroupBodies,
              {JText, JObj([success |-> JBool(TRUE), result_count |-> JInt(0),
                            groups |-> JArr(<<>>)])})

PlayerRecs ==
    {JArr(<<JInt(3), JStr(<<"u">>)>>),
     JArr(<<JInt(3), JStr(<<"u">>), JInt(0)>>),
     JArr(<<JInt(4), JStr(<<"v">>)>>),
     JArr(<<JInt(3)>>),
     JArr(<<JStr(Str_x), JStr(<<"u">>)>>)}

PlayerBodies ==
    {JObj([success |-> JBool(b), result_count |-> JInt(1), players |-> a]) :
        b \in BOOLEAN, a \in JArrays(PlayerRecs)}
    \cup BadBodies
    \cup {JObj([success |-> JBool(TRUE), players |-> JArr(<<>>)]),
          JObj([success |-> JBool(TRUE), result_count |-> JInt(1),
                players |-> JArr(<<JArr(<<JBool(TRUE), JStr(<<"u">>)>>)>>)])}

PlayerResponses ==
    Responses(PlayerBodies,
              {JText, JObj([success |-> JBool(TRUE), result_count |-> JInt(0),
                            players |-> JArr(<<>>)])})

\* Keys of the keyed collections: numbers, a padded and a signed number,
\* a negative number, text, and the empty string.
MapKeys == {<<"1">>, <<"2">>, <<"0", "1">>, <<"+", "1">>, <<"-", "1">>, Str_x, <<>>}

ItemRecs ==
    {JArr(ItemBase),
     JArr(SubSeq(ItemBase, 1, 9)),
     JArr(ItemBase \o <<JInt(1)>>),
     JArr([ItemBase EXCEPT ![3] = JStr(Str_x)])}

ItemBodies ==
    {JObj([success |-> JBool(b), item_count |-> JInt(1), items |-> m]) :
        b \in BOOLEAN, m \in JMaps(MapKeys, ItemRecs)}
    \cup BadBodies
    \cup {JObj([success |-> JBool(TRUE), items |-> JMap(<<>>)]),
          JObj([success |-> JBool(TRUE), item_count |-> JInt(1),
                items |-> JArr(<<>>)])}

ItemResponses ==
    Responses(ItemBodies,
              {JText, JObj([success |-> JBool(TRUE), item_count |-> JInt(0),
                            items |-> JMap(<<>>)])})

GameRecs ==
    {JArr(<<JStr(<<"g">>), JInt(10), JStr(<<"u">>)>>),
     JArr(<<JStr(<<"g">>), JInt(10)>>),
     JArr(<<JStr(<<"g">>), JInt(10), JStr(<<"u">>), JInt(1)>>),
     JArr(<<JStr(<<"g">>), JStr(Str_x), JStr(<<"u">>)>>)}

GameBodies ==
    {JObj([success |-> JBool(b), game_count |-> JInt(1), games |-> m]) :
        b \in BOOLEAN, m \in JMaps(MapKeys, GameRecs)}
    \cup BadBodies
    \cup {JObj([success |-> JBool(TRUE), games |-> JMap(<<>>)]),
          JObj([success |-> JBool(TRUE), game_count |-> JInt(1),
                games |-> JMap(<<"1">> :> JInt(1))])}

GameResponses ==
    Responses(GameBodies,
              {JText, JObj([success |-> JBool(TRUE), game_count |-> JInt(0),
                            games |-> JMap(<<>>)])})

ProfileBase ==
    [success |-> JBool(TRUE), playerTerminated |-> JBool(FALSE),
     playerPrivacyEnabled |-> JBool(FALSE), playerVerified |-> JBool(TRUE),
     playerId |-> JInt(77), chartNominalScanTime |-> JInt(5),
     playerAssets |-> JMap(<<>>), isOnline |-> JBool(TRUE),
     presenceType |-> JInt(2), lastOnline |-> JInt(6),
     lastLocation |-> JStr(<<"W">>), lastPlaceId |-> JNull,
     locationGameIsTracked |-> JBool(FALSE), locationGameIconUrl |-> JNull,
     premium |-> JBool(TRUE), badges |-> JMap(<<>>)]

Without(r, f) == [x \in (DOMAIN r) \ {f} |-> r[x]]

UaidVecs == {JArr(<<>>), JArr(<<JInt(11), JInt(12)>>)}

BadgeKeys == {<<"b">>, <<"c">>}

ProfileBodies ==
    {JObj([ProfileBase EXCEPT !.success = JBool(b), !.playerAssets = m, !.badges = g]) :
        b \in BOOLEAN, m \in JMaps(MapKeys, UaidVecs), g \in JMaps(BadgeKeys, {JInt(8)})}
    \cup {JObj([ProfileBase EXCEPT !.presenceType = JInt(n)]) : n \in {0, 1, 2, 3, 4, 255, 256}}
    \cup {JObj(Without(ProfileBase, f)) : f \in {"success", "premium", "lastPlaceId"}}
    \cup {JObj([ProfileBase EXCEPT !.lastPlaceId = JInt(9)]),
          JObj([ProfileBase EXCEPT !.playerAssets = JMap(<<"1">> :> JArr(<<JInt(-1)>>))])}
    \cup BadBodies

ProfileResponses == Responses(ProfileBodies, {JText, JObj(ProfileBase)})

JInts(xs) == JArr([i \in 1..Len(xs) |-> JInt(xs[i])])

TradeAdJson(offer, request) ==
    JArr(<<JInt(1), JInt(2), JInt(3), JStr(<<"u">>), JObj(offer), JObj(request)>>)

OfferJson == [items |-> JInts(<<7>>), robux |-> JInt(5)]

TradeAdRecs ==
    {TradeAdJson(OfferJson, [tags |-> JInts(<<1, 10>>), items |-> JInts(<<>>)]),
     TradeAdJson(OfferJson, [tags |-> JInts(<<4, 0>>), items |-> JInts(<<8>>)]),
     TradeAdJson(OfferJson, [tags |-> JInts(<<11>>), items |-> JInts(<<8>>)]),
     TradeAdJson(OfferJson, [tags |-> JInts(<<2, 3, 5, 6, 7, 8, 9>>), items |-> JInts(<<>>)]),
     TradeAdJson(OfferJson, [tags |-> JInts(<<1, 255>>), items |-> JInts(<<>>)]),
     TradeAdJson([items |-> JInts(<<7>>)], [items |-> JInts(<<8, 9>>)]),
     TradeAdJson(OfferJson, [tags |-> JInts(<<256>>), items |-> JInts(<<>>)]),
     JArr(<<JInt(1), JInt(2), JInt(3), JStr(<<"u">>), JObj(OfferJson)>>)}

TradeAdBodies ==
    {JObj([success |-> JBool(b), trade_ad_count |-> JInt(n), trade_ads |-> a]) :
        b \in BOOLEAN, n \in {0, 2}, a \in JArrays(TradeAdRecs)}
    \cup BadBodies
    \cup {JObj([success |-> JBool(TRUE), trade_ads |-> JArr(<<>>)])}

TradeAdResponses ==
    Responses(TradeAdBodies,
              {JText, JObj([success |-> JBool(TRUE), trade_ad_count |-> JInt(0),
                            trade_ads |-> JArr(<<>>)])})

CreateResponses ==
    {Response(st, JText) : st \in StatusCodes} \cup {Failure(e) : e \in TransportErrors}

\* Tokens as byte strings: "api", and "a\n", which no header can carry.
Tokens == {<<97, 112, 105>>, <<97, 10>>}

----------------------------------------------------------------------------
(* The Client: its construction, its token, and its methods, each called   *)
(* with whatever the transport may answer.                                 *)

\* A client made by Client::new()
ClientNew ==
    /\ roli_verification = Client_new.roli_verification
    /\ reqwest_client = Client_new.reqwest_client
    /\ builder = NoBuilder
    /\ pc = "idle"
    /\ call = [op |-> "Client::new"]

\* A client made by Client::with_roli_verification(token)
ClientWithRoliVerification ==
    \E token \in Tokens :
        /\ roli_verification = Client_with_roli_verification(token).roli_verification
        /\ reqwest_client = Client_with_roli_verification(token).reqwest_client
        /\ builder = NoBuilder
        /\ pc = "idle"
        /\ call = [op |-> "Client::with_roli_verification"]

\* A builder made by ClientBuilder::new(): there is no client yet.
ClientBuilderNew ==
    /\ builder = ClientBuilder_new
    /\ roli_verification = None
    /\ reqwest_client = NoReqwest
    /\ pc = "building"
    /\ call = [op |-> "ClientBuilder::new"]

\* The program starts by making a client, or a builder of one.
Init ==
    /\ ClientNew \/ ClientWithRoliVerification \/ ClientBuilderNew
    /\ result = NoResult
    /\ sent = 0

\* ClientBuilder::set_roli_verification
ClientBuilderSetRoliVerification ==
    /\ pc = "building"
    /\ \E token \in Tokens :
        builder' = ClientBuilder_set_roli_verification(builder, token)
    /\ UNCHANGED <<roli_verification, pc, call, result, sent, reqwest_client>>

\* ClientBuilder::set_reqwest_client
ClientBuilderSetReqwestClient ==
    /\ pc = "building"
    /\ builder' = ClientBuilder_set_reqwest_client(builder, CustomReqwest)
    /\ UNCHANGED <<roli_verification, pc, call, result, sent, reqwest_client>>

\* ClientBuilder::build: the builder is consumed, the client exists.
ClientBuilderBuild ==
    /\ pc = "building"
    /\ roli_verification' = ClientBuilder_build(builder).roli_verification
    /\ reqwest_client' = ClientBuilder_build(builder).reqwest_client
    /\ builder' = NoBuilder
    /\ pc' = "idle"
    /\ call' = [op |-> "ClientBuilder::build"]
    /\ UNCHANGED <<result, sent>>

\* Client::set_roli_verification
SetRoliVerification ==
    /\ pc = "idle"
    /\ \E token \in Tokens : roli_verification' = Some(token)
    /\ UNCHANGED <<pc, call, result, sent, reqwest_client, builder>>

\* A fetching method: one request is sent, the outcome is handled.
Fetched(name, resp, out) ==
    /\ pc' = "done"
    /\ call' = [op |-> name, resp |-> resp]
    /\ result' = out
    /\ sent' = 1
    /\ UNCHANGED <<roli_verification, reqwest_client, builder>>

DealsActivity ==
    /\ pc = "idle"
    /\ \E resp \in DealsResponses :
        Fetched("deals_activity", resp, deals_activity(resp))

RecentSales ==
    /\ pc = "idle"
    /\ \E resp \in SalesResponses, overflow_checks \in BOOLEAN :
        /\ pc' = "done"
        /\ call' = [op |-> "recent_sales", resp |-> resp,
                    overflow_checks |-> overflow_checks]
        /\ result' = recent_sales(resp, overflow_checks)
        /\ sent' = 1
        /\ UNCHANGED <<roli_verification, reqwest_client, builder>>

GroupSearch ==
    /\ pc = "idle"
    /\ \E resp \in GroupResponses :
        Fetched("group_search", resp, group_search(resp))

PlayerSearch ==
    /\ pc = "idle"
    /\ \E resp \in PlayerResponses :
        Fetched("player_search", resp, player_search(resp))

\* The orders in which a HashMap of the envelope may be iterated (the
\* empty order when there is no envelope).
OrdersOf(resp, Envelope(_), field) ==
    IF resp.ok /\ resp.status = 200 /\ Envelope(resp.body).ok
    THEN Orders(DOMAIN Envelope(resp.body)[field])
    ELSE {<<>>}

AllItemDetails ==
    /\ pc = "idle"
    /\ \E resp \in ItemResponses :
       \E order \in OrdersOf(resp, AllItemDetailsResponse, "items") :
        /\ pc' = "done"
        /\ call' = [op |-> "all_item_details", resp |-> resp, order |-> order]
        /\ result' = all_item_details(resp, order)
        /\ sent' = 1
        /\ UNCHANGED <<roli_verification, reqwest_client, builder>>

GamesList ==
    /\ pc = "idle"
    /\ \E resp \in GameResponses :
       \E order \in OrdersOf(resp, GamesListResponse, "games") :
        /\ pc' = "done"
        /\ call' = [op |-> "games_list", resp |-> resp, order |-> order]
        /\ result' = games_list(resp, order)
        /\ sent' = 1
        /\ UNCHANGED <<roli_verification, reqwest_client, builder>>

PlayerProfile ==
    /\ pc = "idle"
    /\ \E resp \in ProfileResponses :
       \E badge_order \in OrdersOf(resp, PlayerProfileResponse, "badges"),
          asset_order \in OrdersOf(resp, PlayerProfileResponse, "player_assets") :
        /\ pc' = "done"
        /\ call' = [op |-> "player_profile", resp |-> resp,
                    badge_order |-> badge_order, order |-> asset_order]
        /\ result' = player_profile(resp, badge_order, asset_order)
        /\ sent' = 1
        /\ UNCHANGED <<roli_verification, reqwest_client, builder>>

RecentTradeAds ==
    /\ pc = "idle"
    /\ \E resp \in TradeAdResponses :
        Fetched("recent_trade_ads", resp, recent_trade_ads(resp))

NotSent == [ok |-> FALSE, error |-> "not sent"]

\* Client::create_trade_ad: without a usable token it returns before the
\* request; otherwise one request is sent and its outcome is handled.
CreateTradeAd ==
    /\ pc = "idle"
    /\ IF create_trade_ad_headers(roli_verification).kind # "Ok"
       THEN /\ call' = [op |-> "create_trade_ad", resp |-> NotSent]
            /\ result' = create_trade_ad(roli_verification, NotSent)
            /\ sent' = 0
       ELSE \E resp \in CreateResponses :
            /\ call' = [op |-> "create_trade_ad", resp |-> resp]
            /\ result' = create_trade_ad(roli_verification, resp)
            /\ sent' = 1
    /\ pc' = "done"
    /\ UNCHANGED <<roli_verification, reqwest_client, builder>>

\* The caller takes the result; the client can be used for the next call.
Return ==
    /\ pc = "done"
    /\ pc' = "idle"
    /\ call' = NoCall
    /\ result' = NoResult
    /\ sent' = 0
    /\ UNCHANGED <<roli_verification, reqwest_client, builder>>

Next ==
    \/ ClientBuilderSetRoliVerification
    \/ ClientBuilderSetReqwestClient
    \/ ClientBuilderBuild
    \/ SetRoliVerification
    \/ AllItemDetails
    \/ DealsActivity
    \/ RecentSales
    \/ GamesList
    \/ GroupSearch
    \/ PlayerSearch
    \/ PlayerProfile
    \/ RecentTradeAds
    \/ CreateTradeAd
    \/ Return

Spec == Init /\ [][Next]_vars

----------------------------------------------------------------------------
(* Vocabulary of the properties                                            *)

FetchOps ==
    {"all_item_details", "deals_activity", "recent_sales", "games_list",
     "group_search", "player_search", "player_profile", "recent_trade_ads"}

ClientOps == FetchOps \cup {"create_trade_ad"}

DecoderNames ==
    {"ItemDetails", "Activity", "Sale", "Game", "GroupSearchResult",
     "PlayerSearchResult"}

\* The declared arity of each positional entity.
Arities(name) ==
    CASE name = "ItemDetails"        -> {10}
      [] name = "Activity"           -> {5}
      [] name = "Sale"               -> {6}
      [] name = "Game"               -> {3}
      [] name = "GroupSearchResult"  -> {7}
      [] name = "PlayerSearchResult" -> {2, 3}

\* The typed envelope of a fetching method's body.
EnvelopeOf(name, body) ==
    CASE name = "all_item_details" -> AllItemDetailsResponse(body)
      [] name = "deals_activity"   -> DealsActivityResponse(body)
      [] name = "recent_sales"     -> RecentSalesResponse(body)
      [] name = "games_list"       -> GamesListResponse(body)
      [] name = "group_search"     -> GroupSearchResponse(body)
      [] name = "player_search"    -> PlayerSearchResponse(body)
      [] name = "player_profile"   -> PlayerProfileResponse(body)
      [] name = "recent_trade_ads" -> RecentTradeAdsResponse(body)

\* A client method has ended after the transport answered with status st.
AnsweredWith(st) ==
    pc = "done" /\ call.op \in ClientOps /\ sent = 1 /\ call.resp.ok
    /\ call.resp.status = st

IsErr(r, e) == r.kind = "Err" /\ r.err = e /\ r.value = <<>>

----------------------------------------------------------------------------
(* C1: every positional decoder (ItemDetails 10 slots, Activity 5, Sale 6, *)
(* Game 3, GroupSearchResult 7, PlayerSearchResult 2 or 3) returns the     *)
(* MalformedResponse error, and no record, for every array whose length    *)
(* is not the declared arity.                                              *)
C1_ArityMismatchIsMalformed ==
    (pc = "done" /\ call.op \in DecoderNames
        /\ Len(call.codes) \notin Arities(call.op))
    => IsErr(result, MalformedResponse)

(* C2: every client method ends by returning a full result or one error    *)
(* value, whatever the transport outcome; it never panics.                 *)
C2_NoPanic ==
    (pc = "done" /\ call.op \in ClientOps) => result.kind \in {"Ok", "Err"}

(* C3: for every client method a status of 429 yields TooManyRequests,     *)
(* whatever the body, and nothing of the body is decoded.                  *)
C3_Status429IsTooManyRequests ==
    AnsweredWith(429) => (IsErr(result, TooManyRequests) /\ result.decoded = 0)

(* C4: for every client method a status of 500 yields InternalServerError, *)
(* never UnidentifiedStatusCode(500) or another kind.                      *)
C4_Status500IsInternalServerError ==
    AnsweredWith(500) => IsErr(result, InternalServerError)

(* C5: for every fetching method and every status c other than 200, 429    *)
(* and 500, the result is UnidentifiedStatusCode(c) with the very code c   *)
(* that the transport reported.                                            *)
C5_OtherStatusIsUnidentified ==
    (pc = "done" /\ call.op \in FetchOps /\ call.resp.ok
        /\ call.resp.status \notin {200, 429, 500})
    => (IsErr(result, UnidentifiedStatusCode) /\ result.code = call.resp.status)

(* C6: for every fetching method, a status-200 body whose envelope parses  *)
(* and has success = false yields RequestReturnedUnsuccessful, and no      *)
(* record of the payload is decoded or returned.                           *)
C6_UnsuccessfulEnvelope ==
    (pc = "done" /\ call.op \in FetchOps /\ call.resp.ok /\ call.resp.status = 200
        /\ EnvelopeOf(call.op, call.resp.body).ok
        /\ ~EnvelopeOf(call.op, call.resp.body).success)
    => (IsErr(result, RequestReturnedUnsuccessful) /\ result.decoded = 0)

(* C7: for every client method, when the transport obtains no response the *)
(* method returns ReqwestError carrying the transport's error, and none of *)
(* the response-shape kinds.                                               *)
C7_TransportFailureIsReqwestError ==
    (pc = "done" /\ call.op \in ClientOps /\ sent = 1 /\ ~call.resp.ok)
    => (IsErr(result, ReqwestError) /\ result.cause = call.resp.error)

(* C8: for every fetching method, a status-200 body that does not have the *)
(* shape of the method's envelope yields MalformedResponse at once: no     *)
(* record decoding step is run and no collection is returned.              *)
C8_BadEnvelopeIsMalformed ==
    (pc = "done" /\ call.op \in FetchOps /\ call.resp.ok /\ call.resp.status = 200
        /\ ~EnvelopeOf(call.op, call.resp.body).ok)
    => (IsErr(result, MalformedResponse) /\ result.decoded = 0)

\* A player_profile call has ended on a status-200 JSON object that lacks
\* fields of the envelope, with MalformedResponse.
C8_Witness ==
    /\ pc = "done" /\ call.op = "player_profile"
    /\ call.resp.ok /\ call.resp.status = 200
    /\ call.resp.body.t = "obj"
    /\ ~PlayerProfileResponse(call.resp.body).ok
    /\ result.err = MalformedResponse

\* The integer a scalar of the wire stands for.
Wire(c) == to_i64(c).v

IsInt(c) == to_i64(c).ok

(* C9: for every Activity array of length 5 whose timestamp,               *)
(* discriminator, item-id and value slots are integers (native or          *)
(* string-encoded): a discriminator of 0 gives PriceUpdate with timestamp  *)
(* = slot 1, item_id = slot 3, price = slot 5; every other discriminator   *)
(* gives RapUpdate with timestamp = slot 1, item_id = slot 3, rap = slot 5.*)
C9_ActivityVariant ==
    (pc = "done" /\ call.op = "Activity" /\ Len(call.codes) = 5
        /\ IsInt(call.codes[1]) /\ IsInt(call.codes[2])
        /\ IsInt(call.codes[3]) /\ IsInt(call.codes[5]))
    => /\ result.kind = "Ok"
       /\ result.value[1] =
            IF Wire(call.codes[2]) = 0
            THEN PriceUpdate(Wire(call.codes[1]), Wire(call.codes[3]), Wire(call.codes[5]))
            ELSE RapUpdate(Wire(call.codes[1]), Wire(call.codes[3]), Wire(call.codes[5]))

(* C10: for every Sale array that decodes successfully, sale_price =       *)
(* new_rap when old_rap = 0 and 10 x (new_rap - old_rap) + old_rap         *)
(* otherwise, old_rap and new_rap being the wire values of the 4th and 5th *)
(* slots.                                                                  *)
C10_SalePrice ==
    (pc = "done" /\ call.op = "Sale" /\ result.kind = "Ok")
    => result.value[1].sale_price =
         IF Wire(call.codes[4]) = 0 THEN Wire(call.codes[5])
         ELSE 10 * (Wire(call.codes[5]) - Wire(call.codes[4])) + Wire(call.codes[4])

\* The sale price of the formula, in unbounded signed arithmetic.
SignedSalePrice(old_rap, new_rap) == 10 * (new_rap - old_rap) + old_rap

(* C11: for every Sale array of length 6 whose old_rap and new_rap slots   *)
(* are integers, with old_rap # 0 and 10 x (new_rap - old_rap) + old_rap   *)
(* negative, decoding does not return a Sale.                              *)
C11_NegativeSalePriceRejected ==
    (pc = "done" /\ call.op = "Sale" /\ Len(call.codes) = 6
        /\ IsInt(call.codes[4]) /\ IsInt(call.codes[5])
        /\ Wire(call.codes[4]) # 0
        /\ SignedSalePrice(Wire(call.codes[4]), Wire(call.codes[5])) < 0)
    => result.kind # "Ok"

\* The codes of the demand and trend tables.
EnumCodes == -1..4

\* An ItemDetails decode has ended on an array that has slot i (counted
\* from 1) holding an integer outside the enum table.
BadEnumCode(i) ==
    /\ pc = "done" /\ call.op = "ItemDetails" /\ Len(call.codes) >= i
    /\ IsInt(call.codes[i]) /\ Wire(call.codes[i]) \notin EnumCodes

(* C12: the demand and trend codes -1, 0, 1, 2, 3, 4 map one-to-one onto   *)
(* the six variants of their enum, -1 onto Unassigned; an ItemDetails      *)
(* array whose demand slot or trend slot holds an integer outside -1..4    *)
(* fails with MalformedResponse, and a decoded record carries the variant  *)
(* of the code of each slot.                                               *)
C12_EnumCodeTables ==
    /\ \A a \in EnumCodes : DemandOf(a).ok /\ TrendOf(a).ok
    /\ DemandOf(-1).v = "Unassigned" /\ TrendOf(-1).v = "Unassigned"
    /\ {DemandOf(a).v : a \in EnumCodes} = Demand
    /\ {TrendOf(a).v : a \in EnumCodes} = Trend
    /\ \A a, b \in EnumCodes :
        a # b => (DemandOf(a).v # DemandOf(b).v /\ TrendOf(a).v # TrendOf(b).v)
    /\ (BadEnumCode(6) \/ BadEnumCode(7)) => IsErr(result, MalformedResponse)
    /\ (pc = "done" /\ call.op = "ItemDetails" /\ result.kind = "Ok")
        => /\ Wire(call.codes[6]) \in EnumCodes /\ Wire(call.codes[7]) \in EnumCodes
           /\ result.value[1].demand \in Demand /\ result.value[1].trend \in Trend

\* A 10-slot array, valid but for the demand code 5, was refused.
C12_Witness ==
    /\ pc = "done" /\ call.op = "ItemDetails"
    /\ call.codes = [ItemBase EXCEPT ![6] = CodeInteger(5)]
    /\ result.kind = "Err" /\ result.err = MalformedResponse

\* The slots (counted from 1) of valued, projected, hyped and rare.
FlagSlots == {4, 8, 9, 10}

\* An ItemDetails decode has ended on a 10-slot array.
ItemDecoded == pc = "done" /\ call.op = "ItemDetails" /\ Len(call.codes) = 10

(* C13: for a 10-slot ItemDetails array, each of the valued, projected,    *)
(* hyped and rare slots decodes 1 to true and -1 to false, and an array    *)
(* with any other integer in one of these slots fails with                 *)
(* MalformedResponse.                                                      *)
C13_BooleanPairs ==
    /\ (ItemDecoded /\ \E i \in FlagSlots :
            IsInt(call.codes[i]) /\ Wire(call.codes[i]) \notin {1, -1})
        => IsErr(result, MalformedResponse)
    /\ (ItemDecoded /\ result.kind = "Ok")
        => /\ \A i \in FlagSlots : Wire(call.codes[i]) \in {1, -1}
           /\ result.value[1].valued = (Wire(call.codes[4]) = 1)
           /\ result.value[1].projected = (Wire(call.codes[8]) = 1)
           /\ result.value[1].hyped = (Wire(call.codes[9]) = 1)
           /\ result.value[1].rare = (Wire(call.codes[10]) = 1)

\* s is a base-10 integer: an optional sign, then one digit or more.
IsDecimal(s) ==
    LET body == IF s # <<>> /\ Head(s) \in {"+", "-"} THEN Tail(s) ELSE s
    IN  body # <<>> /\ \A i \in 1..Len(body) : IsDigit(body[i])

RECURSIVE PlaceValue(_, _)
\* The sum of digit x 10^place over the digits of body.
PlaceValue(body, i) ==
    IF i > Len(body) THEN 0
    ELSE DigitVal(body[i]) * 10 ^ (Len(body) - i) + PlaceValue(body, i + 1)

\* The integer a base-10 string denotes.
DecimalValue(s) ==
    IF Head(s) = "-" THEN 0 - PlaceValue(Tail(s), 1)
    ELSE IF Head(s) = "+" THEN PlaceValue(Tail(s), 1)
    ELSE PlaceValue(s, 1)

IsDecimalI64(s) == IsDecimal(s) /\ InRangeI64(DecimalValue(s))

(* C14: Code::to_i64 of Integer(n) is n; of String(s), with s the base-10  *)
(* rendering of an i64 n, it is n, so the string rendering of n and the    *)
(* integer n yield the same value; of a string that is not a base-10 i64   *)
(* (text, the empty string, digits out of range) it is MalformedResponse.  *)
C14_ToI64RoundTrip ==
    (pc = "done" /\ call.op = "to_i64") =>
        LET c == call.codes[1]
        IN  /\ c.t = "int" => result = RecOk(c.i)
            /\ \A n \in I64Samples :
                   c = CodeString(RenderI64(n))
                   => (result = RecOk(n) /\ result = RecOk(to_i64(CodeInteger(n)).v))
            /\ (c.t = "str" /\ IsDecimalI64(c.s)) => result = RecOk(DecimalValue(c.s))
            /\ (c.t = "str" /\ ~IsDecimalI64(c.s)) => IsErr(result, MalformedResponse)

\* The rendering of the least i64 was read back as that integer.
C14_Witness ==
    /\ pc = "done" /\ call.op = "to_i64"
    /\ call.codes[1] = CodeString(RenderI64(I64_MIN))
    /\ result = RecOk(I64_MIN)

\* What decoding the payload of the ended call once more can return: the
\* same method on the same response (and the same build), with the maps
\* of the envelope iterated in any order.
SecondDecodes ==
    CASE call.op = "all_item_details" ->
           {all_item_details(call.resp, o) :
               o \in OrdersOf(call.resp, AllItemDetailsResponse, "items")}
      [] call.op = "games_list" ->
           {games_list(call.resp, o) :
               o \in OrdersOf(call.resp, GamesListResponse, "games")}
      [] call.op = "player_profile" ->
           {player_profile(call.resp, b, a) :
               b \in OrdersOf(call.resp, PlayerProfileResponse, "badges"),
               a \in OrdersOf(call.resp, PlayerProfileResponse, "player_assets")}
      [] call.op = "deals_activity"   -> {deals_activity(call.resp)}
      [] call.op = "recent_sales"     -> {recent_sales(call.resp, call.overflow_checks)}
      [] call.op = "group_search"     -> {group_search(call.resp)}
      [] call.op = "player_search"    -> {player_search(call.resp)}
      [] call.op = "recent_trade_ads" -> {recent_trade_ads(call.resp)}

(* C15: for every fetching method, decoding the same response twice gives  *)
(* equal results: the same outcome and, for the list results built from a  *)
(* string-keyed map (all_item_details, games_list, the badges and the      *)
(* inventory of player_profile), the same elements in the same order.      *)
C15_DecodeIsDeterministic ==
    (pc = "done" /\ call.op \in FetchOps) => \A again \in SecondDecodes : again = result

\* The outcomes of the elements of a map, each decoded on its own.
OutcomesOfMap(F(_), map) == {F([key |-> k, val |-> map[k]]) : k \in DOMAIN map}

\* The outcomes of the elements of a list, each decoded on its own.
OutcomesOfList(F(_), xs) == {F(xs[i]) : i \in 1..Len(xs)}

\* A fetching method has ended on a status-200 body that is an envelope
\* with success = true: the records of its payload are being decoded.
PayloadDecoded ==
    /\ pc = "done" /\ call.op \in FetchOps
    /\ call.resp.ok /\ call.resp.status = 200
    /\ EnvelopeOf(call.op, call.resp.body).ok
    /\ EnvelopeOf(call.op, call.resp.body).success

\* The outcome of every record of the payload of the ended call, decoded
\* on its own.
PayloadOutcomes ==
    LET raw == EnvelopeOf(call.op, call.resp.body)
        Dec(codes) == Sale_from_raw(codes, call.overflow_checks)
    IN  CASE call.op = "all_item_details" -> OutcomesOfMap(ItemEntry, raw.items)
          [] call.op = "games_list"       -> OutcomesOfMap(GameEntry, raw.games)
          [] call.op = "player_profile"   ->
                OutcomesOfMap(AssetEntry, raw.player_assets)
                \cup OutcomesOfMap(BadgeEntry, raw.badges)
          [] call.op = "deals_activity"   -> OutcomesOfList(Activity_from_raw, raw.activities)
          [] call.op = "recent_sales"     -> OutcomesOfList(Dec, raw.activities)
          [] call.op = "group_search"     -> OutcomesOfList(GroupSearchResult_from_raw, raw.groups)
          [] call.op = "player_search"    -> OutcomesOfList(PlayerSearchResult_from_raw, raw.players)
          [] call.op = "recent_trade_ads" -> OutcomesOfList(TradeAd_from_raw, raw.trade_ads)

\* The number of elements of the payload of the ended call, and of the
\* collection it returned.
PayloadSize ==
    LET raw == EnvelopeOf(call.op, call.resp.body)
    IN  CASE call.op = "all_item_details" -> Cardinality(DOMAIN raw.items)
          [] call.op = "games_list"       -> Cardinality(DOMAIN raw.games)
          [] call.op = "player_profile"   ->
                Cardinality(DOMAIN raw.player_assets) + Cardinality(DOMAIN raw.badges)
          [] call.op = "deals_activity"   -> Len(raw.activities)
          [] call.op = "recent_sales"     -> Len(raw.activities)
          [] call.op = "group_search"     -> Len(raw.groups)
          [] call.op = "player_search"    -> Len(raw.players)
          [] call.op = "recent_trade_ads" -> Len(raw.trade_ads)

ReturnedSize ==
    IF call.op = "player_profile"
    THEN Len(result.value[1].inventory) + Len(result.value[1].badges)
    ELSE Len(result.value)

(* C16: for every fetching method whose payload is decoded, if a record of *)
(* the payload fails to decode with an error, the method returns that      *)
(* error and no collection; a returned collection holds one decoded        *)
(* entity for every element of the payload.                                *)
C16_FailFast ==
    PayloadDecoded =>
        /\ (\E o \in PayloadOutcomes : o.kind = "Err")
            => /\ result.kind = "Err" /\ result.value = <<>>
               /\ \E o \in PayloadOutcomes : o.kind = "Err" /\ o.err = result.err
        /\ result.kind = "Ok"
            => /\ \A o \in PayloadOutcomes : o.kind = "Ok"
               /\ ReturnedSize = PayloadSize

\* The documented tables of demand and trend, from code -1 to code 4.
DemandTable == <<"Unassigned", "Terrible", "Low", "Normal", "High", "Amazing">>

TrendTable == <<"Unassigned", "Lowering", "Unstable", "Stable", "Raising", "Fluctuating">>

\* A valid item array: 10 slots, rap and value non-negative integers,
\* demand and trend codes of the tables, the four flags 1 or -1.
ValidItem(codes) ==
    /\ Len(codes) = 10
    /\ \A i \in {3, 5} : IsInt(codes[i]) /\ Wire(codes[i]) >= 0
    /\ \A i \in {6, 7} : IsInt(codes[i]) /\ Wire(codes[i]) \in EnumCodes
    /\ \A i \in FlagSlots : IsInt(codes[i]) /\ Wire(codes[i]) \in {1, -1}

(* C17: for every item id k and every valid 10-slot item array, the decode *)
(* returns a record with item_id = k, item_name = the rendering of slot 0, *)
(* rap = slot 2, value = slot 4, demand and trend = the variants of the    *)
(* codes of slots 5 and 6, and valued, projected, hyped, rare = the        *)
(* booleans of slots 3, 7, 8, 9; a 10-slot array whose rap slot is a       *)
(* string that is no number fails with MalformedResponse.                  *)
C17_ItemDetailsFields ==
    /\ (ItemDecoded /\ ValidItem(call.codes)) =>
          /\ result.kind = "Ok"
          /\ result.value[1].item_id = call.item_id
          /\ result.value[1].item_name = to_string(call.codes[1])
          /\ result.value[1].rap = Wire(call.codes[3])
          /\ result.value[1].valued = (Wire(call.codes[4]) = 1)
          /\ result.value[1].value = Wire(call.codes[5])
          /\ result.value[1].demand = DemandTable[Wire(call.codes[6]) + 2]
          /\ result.value[1].trend = TrendTable[Wire(call.codes[7]) + 2]
          /\ result.value[1].projected = (Wire(call.codes[8]) = 1)
          /\ result.value[1].hyped = (Wire(call.codes[9]) = 1)
          /\ result.value[1].rare = (Wire(call.codes[10]) = 1)
    /\ (ItemDecoded /\ call.codes[3].t = "str" /\ ~IsInt(call.codes[3]))
          => IsErr(result, MalformedResponse)

\* The array of the unit test, with id 123, decoded to rap 100, valued,
\* value 200, High, Fluctuating, projected, hyped and rare.
C17_Witness ==
    /\ pc = "done" /\ call.op = "ItemDetails"
    /\ call.codes = ItemBase /\ call.item_id = 123
    /\ result.kind = "Ok"
    /\ result.value[1].item_id = 123 /\ result.value[1].rap = 100
    /\ result.value[1].valued /\ result.value[1].value = 200
    /\ result.value[1].demand = "High" /\ result.value[1].trend = "Fluctuating"
    /\ result.value[1].projected /\ result.value[1].hyped /\ result.value[1].rare

KeyedOps == {"all_item_details", "games_list", "player_profile"}

\* The keys of the keyed collection of the ended call.
PayloadKeys ==
    LET raw == EnvelopeOf(call.op, call.resp.body)
    IN  CASE call.op = "all_item_details" -> DOMAIN raw.items
          [] call.op = "games_list"       -> DOMAIN raw.games
          [] call.op = "player_profile"   -> DOMAIN raw.player_assets

\* k is the base-10 text of an unsigned 64-bit integer.
IsUnsignedKey(k) == IsDecimal(k) /\ Head(k) # "-" /\ DecimalValue(k) <= U64_MAX

(* C18: for all_item_details, games_list and player_profile, when a key of *)
(* the keyed collection is not the text of an unsigned integer (text, a    *)
(* negative number, the empty string) the method fails with                *)
(* MalformedResponse and returns no entity.                                *)
C18_UnparseableKey ==
    (PayloadDecoded /\ call.op \in KeyedOps /\ \E k \in PayloadKeys : ~IsUnsignedKey(k))
    => IsErr(result, MalformedResponse)

\* The documented table of the request tags, from code 1 to code 10.
TagTable ==
    <<"Demand", "Rares", "Robux", "Any", "Upgrade", "Downgrade", "Rap", "Wishlist",
      "Projecteds", "Adds">>

TagCodes == 1..10

\* The trade ads of the envelope of the ended recent_trade_ads call.
RawTradeAds == RecentTradeAdsResponse(call.resp.body).trade_ads

(* C19: the tag codes 1..10 translate one-to-one onto the ten RequestTag   *)
(* variants (1 Demand, 2 Rares, 3 Robux, 4 Any, 5 Upgrade, 6 Downgrade,    *)
(* 7 Rap, 8 Wishlist, 9 Projecteds, 10 Adds); a tag code outside 1..10 in  *)
(* the request of any trade ad makes recent_trade_ads fail with            *)
(* MalformedResponse, and a returned trade ad carries the variants of its  *)
(* tag codes.                                                              *)
C19_RequestTagCodes ==
    /\ \A c \in TagCodes :
          RequestTag_try_from(c).ok /\ RequestTag_try_from(c).v = TagTable[c]
    /\ {TagTable[c] : c \in TagCodes} = RequestTag
    /\ \A c, d \in TagCodes : c # d => TagTable[c] # TagTable[d]
    /\ (PayloadDecoded /\ call.op = "recent_trade_ads") =>
          /\ (\E i \in 1..Len(RawTradeAds) :
                \E j \in 1..Len(RawTradeAds[i].request_raw.tags) :
                    RawTradeAds[i].request_raw.tags[j] \notin TagCodes)
              => IsErr(result, MalformedResponse)
          /\ result.kind = "Ok" =>
                \A i \in 1..Len(RawTradeAds) :
                    result.value[i].request.tags =
                        [j \in 1..Len(RawTradeAds[i].request_raw.tags) |->
                            TagTable[RawTradeAds[i].request_raw.tags[j]]]

\* A batch with a trade ad whose second tag is 255 was refused.
C19_Witness ==
    /\ PayloadDecoded /\ call.op = "recent_trade_ads"
    /\ \E i \in 1..Len(RawTradeAds) : RawTradeAds[i].request_raw.tags = <<1, 255>>
    /\ result.kind = "Err" /\ result.err = MalformedResponse

\* The documented table of the presence types, from code 0 to code 3.
PresenceTable == <<"Unavailable", "Website", "InGame", "InStudio">>

\* A player_profile call has ended on an envelope with success = true.
ProfileDecoded == PayloadDecoded /\ call.op = "player_profile"

\* The presence code of the envelope of the ended player_profile call.
RawPresence == PlayerProfileResponse(call.resp.body).presence_type

(* C20: player_profile maps the presence code 0 to Unavailable, 1 to       *)
(* Website, 2 to InGame, 3 to InStudio and every other code of the         *)
(* envelope (4..255) to Unavailable; a code outside 0..3 does not make the *)
(* profile fail: the profile is returned whenever the keys of its          *)
(* inventory are unsigned integers.                                        *)
C20_PresenceType ==
    /\ (ProfileDecoded /\ \A k \in PayloadKeys : IsUnsignedKey(k)) => result.kind = "Ok"
    /\ (ProfileDecoded /\ result.kind = "Ok") =>
          result.value[1].presence_type =
              IF RawPresence \in 0..3 THEN PresenceTable[RawPresence + 1]
              ELSE "Unavailable"

\* A profile with the presence code 255 was returned as Unavailable.
C20_Witness ==
    /\ ProfileDecoded /\ RawPresence = 255
    /\ result.kind = "Ok" /\ result.value[1].presence_type = "Unavailable"

(* C21: every invocation of every client method hands exactly one request  *)
(* to the transport: never zero, never more than one.                      *)
C21_ExactlyOneRequest ==
    (pc = "done" /\ call.op \in ClientOps) => sent = 1

\* What one step may do to the verification token.
TokenStep ==
    /\ ClientBuilderSetRoliVerification => builder'.roli_verification.some
    /\ ClientBuilderSetReqwestClient
         => builder'.roli_verification = builder.roli_verification
    /\ (pc = "building" /\ pc' = "building" /\ builder.roli_verification.some)
         => builder'.roli_verification.some
    /\ (pc = "building" /\ pc' = "building" /\ ~builder.roli_verification.some
            /\ builder'.roli_verification.some)
         => ClientBuilderSetRoliVerification
    /\ ClientBuilderBuild
         => (contains_roli_verification' = builder.roli_verification.some)
    /\ SetRoliVerification => contains_roli_verification'
    /\ (pc # "building" /\ contains_roli_verification) => contains_roli_verification'

(* C22: a client made by Client::new(), or built from a builder on which   *)
(* set_roli_verification was never called, reports                         *)
(* contains_roli_verification() = false; after                             *)
(* ClientBuilder::set_roli_verification followed by build(), after         *)
(* Client::with_roli_verification and after Client::set_roli_verification  *)
(* it reports true; no step clears a token that is set, and                *)
(* set_reqwest_client leaves the token as it is.                           *)
C22_TokenState ==
    /\ call.op = "Client::new" => ~contains_roli_verification
    /\ call.op = "Client::with_roli_verification" => contains_roli_verification
    /\ call.op = "ClientBuilder::new" => ~builder.roli_verification.some
    /\ [][TokenStep]_vars

\* A client built with a token and a reqwest client of the caller, that
\* has since made a call, reports the token.
C22_Witness ==
    /\ pc = "done" /\ call.op \in ClientOps
    /\ reqwest_client = CustomReqwest
    /\ contains_roli_verification

\* The slots (counted from 1) of an Activity that must be integers: the
\* timestamp, the discriminator, the item id and the value.
ActivityNumericSlots == {1, 2, 3, 5}

\* An Activity decode has ended on a 5-slot array.
ActivityDecoded == pc = "done" /\ call.op = "Activity" /\ Len(call.codes) = 5

\* c is a string that is not the text of a base-10 i64.
IsBadNumber(c) == c.t = "str" /\ ~IsDecimalI64(c.s)

(* C23: for every Activity array of length 5, if the discriminator slot,   *)
(* the timestamp slot, the item-id slot or the value slot holds a string   *)
(* that is no base-10 integer, the decode fails with MalformedResponse and *)
(* returns no Activity, whichever slot it is, whatever the other slots     *)
(* hold and whichever variant the discriminator selects.                   *)
C23_ActivityBadSlot ==
    (ActivityDecoded /\ \E i \in ActivityNumericSlots : IsBadNumber(call.codes[i]))
    => IsErr(result, MalformedResponse)

\* An array whose only bad slot is the discriminator was refused.
C23_Witness ==
    /\ ActivityDecoded
    /\ IsBadNumber(call.codes[2])
    /\ \A i \in ActivityNumericSlots \ {2} : IsInt(call.codes[i])
    /\ result.kind = "Err" /\ result.err = MalformedResponse

\* A Sale decode has ended on a 6-slot array.
SaleDecoded == pc = "done" /\ call.op = "Sale" /\ Len(call.codes) = 6

(* C24: for every Sale array of length 6, an activity-type slot (the       *)
(* second slot) that holds an integer other than 1, or a string that is no *)
(* number, makes the decode fail with MalformedResponse, whatever the      *)
(* other slots hold.                                                       *)
C24_SaleActivityType ==
    (SaleDecoded /\ (IsBadNumber(call.codes[2])
                     \/ (IsInt(call.codes[2]) /\ Wire(call.codes[2]) # 1)))
    => IsErr(result, MalformedResponse)

\* An array valid but for the activity type 2 was refused.
C24_Witness ==
    /\ SaleDecoded
    /\ call.codes = <<CodeInteger(5), CodeInteger(2), CodeInteger(3), CodeInteger(4272),
                      CodeInteger(4314), CodeInteger(9)>>
    /\ result.kind = "Err" /\ result.err = MalformedResponse

\* The decoders that have slots of no known meaning, and those slots.
DiscardingDecoders == {"Activity", "GroupSearchResult", "PlayerSearchResult"}

DiscardedSlots(op) ==
    CASE op = "Activity"           -> {4}
      [] op = "GroupSearchResult"  -> {3, 4, 5}
      [] op = "PlayerSearchResult" -> {3}

\* The decoder named op applied to codes.
DecodeAs(op, codes) ==
    CASE op = "Activity"           -> Activity_from_raw(codes)
      [] op = "GroupSearchResult"  -> GroupSearchResult_from_raw(codes)
      [] op = "PlayerSearchResult" -> PlayerSearchResult_from_raw(codes)

\* The arrays that differ from codes at most in the discarded slots of op.
DiscardedVariants(op, codes) ==
    LET D == DiscardedSlots(op) \cap DOMAIN codes
    IN  {[i \in DOMAIN codes |-> IF i \in D THEN f[i] ELSE codes[i]] :
            f \in [D -> ScalarCodes]}

\* The least number of slots the arity check of op lets through.
LeastArity(op) ==
    CASE op = "Activity"           -> 5
      [] op = "GroupSearchResult"  -> 7
      [] op = "PlayerSearchResult" -> 2

(* C25: the slots of no known meaning (the 4th of an Activity, the 3rd to  *)
(* 5th of a GroupSearchResult, the optional 3rd of a PlayerSearchResult)   *)
(* never influence the outcome: every array that differs from the decoded  *)
(* one only in those slots, by any integer or any string, decodes to the   *)
(* same record or the same error; and an array too short to hold the       *)
(* required ones gives no record.                                          *)
C25_DiscardedSlots ==
    (pc = "done" /\ call.op \in DiscardingDecoders)
    => /\ \A v \in DiscardedVariants(call.op, call.codes) :
            DecodeAs(call.op, v) = result
       /\ Len(call.codes) < LeastArity(call.op) => IsErr(result, MalformedResponse)

\* A group whose three discarded slots hold text and a number decoded to a
\* record.
C25_Witness ==
    /\ pc = "done" /\ call.op = "GroupSearchResult" /\ Len(call.codes) = 7
    /\ call.codes[3] = CodeString(Str_x) /\ call.codes[4] = CodeInteger(1)
    /\ call.codes[5] = CodeString(Str_x)
    /\ result.kind = "Ok"

\* A create_trade_ad call has ended.
TradeAdCreated == pc = "done" /\ call.op = "create_trade_ad"

\* The outcome create_trade_ad gives for the status codes it knows.
CreateStatusTable ==
    [st \in {201, 400, 422, 429} |->
        CASE st = 201 -> [kind |-> "Ok", err |-> "none"]
          [] st = 400 -> [kind |-> "Err", err |-> CooldownNotExpired]
          [] st = 422 -> [kind |-> "Err", err |-> RoliVerificationInvalidOrExpired]
          [] st = 429 -> [kind |-> "Err", err |-> TooManyRequests]]

C27_Acronym ==
    (ItemDecoded /\ result.kind = "Ok") =>
        LET c == call.codes[2]
            a == result.value[1].acronym
        IN  /\ (c.t = "str" /\ c.s = <<>>) => ~a.some
            /\ (c.t = "str" /\ c.s # <<>>) => (a.some /\ a.v = c.s)
            /\ c.t = "int" => /\ a.some /\ IsDecimal(a.v) /\ Head(a.v) # "+"
                              /\ DecimalValue(a.v) = c.i
            /\ a.some => a.v # <<>>

\* An item with the empty string in the acronym slot decoded to a record.
C27_Witness ==
    /\ ItemDecoded /\ call.codes[2] = CodeString(<<>>)
    /\ result.kind = "Ok" /\ ~result.value[1].acronym.some

\* The unsigned fields of the decoded record, each with the slot (counted
\* from 1) it was read from.
UnsignedFields ==
    LET r == result.value[1]
    IN  CASE call.op = "ItemDetails"        -> {<<3, r.rap>>, <<5, r.value>>}
          [] call.op = "Activity"           ->
               {<<1, r.timestamp>>, <<3, r.item_id>>,
                <<5, IF r.variant = "PriceUpdate" THEN r.price ELSE r.rap>>}
          [] call.op = "Sale"               ->
               {<<1, r.timestamp>>, <<3, r.item_id>>, <<4, r.old_rap>>,
                <<5, r.new_rap>>, <<6, r.sale_id>>}
          [] call.op = "Game"               -> {<<2, r.players_active>>}
          [] call.op = "GroupSearchResult"  -> {<<1, r.id>>, <<6, r.member_count>>}
          [] call.op = "PlayerSearchResult" -> {<<1, r.user_id>>}

(* C28: no positional decoder returns a record in which an unsigned field  *)
(* differs from the integer of its slot: a negative wire integer never     *)
(* comes back, in a successful record, as its two's-complement             *)
(* reinterpretation.                                                       *)
C28_NoReinterpretation ==
    (pc = "done" /\ call.op \in DecoderNames /\ result.kind = "Ok")
    => \A f \in UnsignedFields : f[2] = Wire(call.codes[f[1]])

\* The methods whose payload is an array of records.
ListOps ==
    {"deals_activity", "recent_sales", "group_search", "player_search",
     "recent_trade_ads"}

\* The payload array of the ended call, in the order of the wire.
PayloadList ==
    LET raw == EnvelopeOf(call.op, call.resp.body)
    IN  CASE call.op = "deals_activity"   -> raw.activities
          [] call.op = "recent_sales"     -> raw.activities
          [] call.op = "group_search"     -> raw.groups
          [] call.op = "player_search"    -> raw.players
          [] call.op = "recent_trade_ads" -> raw.trade_ads

\* The i-th element of the payload array, decoded on its own.
ElementOutcome(i) ==
    CASE call.op = "deals_activity"   -> Activity_from_raw(PayloadList[i])
      [] call.op = "recent_sales"     -> Sale_from_raw(PayloadList[i], call.overflow_checks)
      [] call.op = "group_search"     -> GroupSearchResult_from_raw(PayloadList[i])
      [] call.op = "player_search"    -> PlayerSearchResult_from_raw(PayloadList[i])
      [] call.op = "recent_trade_ads" -> TradeAd_from_raw(PayloadList[i])

\* The count the envelope of the ended call declares (deals_activity
\* declares none).
DeclaredCount ==
    LET raw == EnvelopeOf(call.op, call.resp.body)
    IN  CASE call.op = "recent_sales"     -> raw.activities_count
          [] call.op = "group_search"     -> raw.result_count
          [] call.op = "player_search"    -> raw.result_count
          [] call.op = "recent_trade_ads" -> raw.trade_ad_count

(* C29: a successful result of deals_activity, recent_sales, group_search,  *)
(* player_search or recent_trade_ads has one entity for every element of   *)
(* the payload array, the i-th entity being the decode of the i-th         *)
(* element, with the tags of a trade ad's request in their wire order; the *)
(* declared count of the envelope is not compared with the number of       *)
(* elements: a payload whose elements all decode is returned whatever the  *)
(* count says.                                                             *)
C29_OneEntityPerElement ==
    /\ (pc = "done" /\ call.op \in ListOps /\ result.kind = "Ok") =>
          /\ Len(result.value) = Len(PayloadList)
          /\ \A i \in 1..Len(PayloadList) : ElementOutcome(i) = RecOk(result.value[i])
          /\ call.op = "recent_trade_ads" =>
                \A i \in 1..Len(PayloadList) :
                    LET wire == PayloadList[i].request_raw.tags
                        tags == result.value[i].request.tags
                    IN  /\ Len(tags) = Len(wire)
                        /\ \A j \in 1..Len(wire) : tags[j] = TagTable[wire[j]]
    /\ (PayloadDecoded /\ call.op \in ListOps
            /\ \A i \in 1..Len(PayloadList) : ElementOutcome(i).kind = "Ok")
        => result.kind = "Ok"

\* Two sales were returned from an envelope that declares none.
C29_Witness ==
    /\ pc = "done" /\ call.op = "recent_sales" /\ result.kind = "Ok"
    /\ Len(result.value) = 2 /\ DeclaredCount = 0

\* The ids of the entities a keyed method returned, in the order returned.
ReturnedIds ==
    CASE call.op = "all_item_details" ->
           [i \in 1..Len(result.value) |-> result.value[i].item_id]
      [] call.op = "games_list"       ->
           [i \in 1..Len(result.value) |-> result.value[i].id]
      [] call.op = "player_profile"   ->
           [i \in 1..Len(result.value[1].inventory) |->
               result.value[1].inventory[i].item_id]

(* C30: in every successful result of all_item_details, games_list and     *)
(* player_profile the ids are pairwise distinct: no two ItemDetails share  *)
(* an item_id, no two Games an id, no two PlayerAssets of the inventory an *)
(* item_id, also when distinct keys of the payload map parse to the same   *)
(* unsigned integer.                                                       *)
C30_DistinctIds ==
    (pc = "done" /\ call.op \in KeyedOps /\ result.kind = "Ok")
    => \A i, j \in DOMAIN ReturnedIds : i # j => ReturnedIds[i] # ReturnedIds[j]

====
